---- MODULE Spec2Model ----
(***************************************************************************)
(* A model of the CBOR byte codec (src/src/cbor.ts) and of the COSE        *)
(* envelope codec built on it (src/src/cose.ts).                           *)
(*                                                                         *)
(* Representation of JavaScript values (CBORValue, cbor.ts:25-34):         *)
(*   <<"num", neg, mag>>   an integer-valued Number; mag is its magnitude  *)
(*                         as big-endian bytes without leading zeros       *)
(*                         (TLC integers are 32 bit wide, the codec goes   *)
(*                         to 2^64), neg its sign; -0 is not told from 0   *)
(*   <<"float", bits>>     a Number read from IEEE-754 bits (major type 7) *)
(*   <<"bytes", b>>        an ArrayBuffer with content b                   *)
(*   <<"text", u>>         a string, u its UTF-16 code units               *)
(*   <<"array", s>>        an Array                                        *)
(*   <<"object", p>>       a plain object: p is the sequence of its own    *)
(*                         properties <<key, value>> in the order          *)
(*                         Object.entries lists them, key a string (its    *)
(*                         code units). {tag, value} is such an object.    *)
(*   <<"bool", b>>, <<"null">>, <<"undefined">>                            *)
(* A call that throws is the result <<"error", message>>.                  *)
(***************************************************************************)
EXTENDS Integers, Sequences, FiniteSets, TLC

VARIABLES
    value,        \* the CBORValue handed to CBOR.encode
    twin,         \* a value with the same entries, inserted in another order
    encoded,      \* CBOR.encode(value)
    encodedTwin,  \* CBOR.encode(twin)
    decoded,      \* CBOR.decode(encoded)
    reencoded,    \* CBOR.encode(decoded)
    pc,           \* position of the byte-codec caller
    env,          \* the envelope handed to a COSE encoder
    envTwin,      \* the same envelope, header maps inserted in another order
    data,         \* the buffer handed to a COSE decoder
    coseEnc,      \* result of the COSE encoder
    coseEncTwin,  \* result of the COSE encoder on envTwin
    coseDec,      \* result of the COSE decoder
    decoder,      \* which COSE decoder ran
    cpc,          \* position of the envelope-codec caller
    wire,         \* a buffer from elsewhere handed to CBOR.decode
    wireDec,      \* CBOR.decode(wire)
    wpc,          \* position of the caller that decodes wire
    wireStart,    \* the offset in wire from which one item is decoded
    wireItem,     \* decodeFirstItem(wire, wireStart): the item and the offset after it
    coseKey,      \* the COSEKey handed to COSE.encodeKey
    keyEnc,       \* COSE.encodeKey(coseKey)
    keyData,      \* the buffer handed to COSE.decodeKey
    keyDec,       \* COSE.decodeKey(keyData)
    kpc,          \* position of the key-codec caller
    call,         \* a call at one of the size limits: entry point and size
    outcome,      \* what the call returned: its error, or the size of its result
    lpc           \* position of the caller at the limits

vars == <<value, twin, encoded, encodedTwin, decoded, reencoded, pc,
          env, envTwin, data, coseEnc, coseEncTwin, coseDec, decoder, cpc,
          wire, wireDec, wpc, wireStart, wireItem, coseKey, keyEnc, keyData, keyDec, kpc,
          call, outcome, lpc>>

cborVars == <<value, twin, encoded, encodedTwin, decoded, reencoded, pc>>
coseVars == <<env, envTwin, data, coseEnc, coseEncTwin, coseDec, decoder, cpc>>
wireVars == <<wire, wireDec, wpc, wireStart, wireItem>>
keyVars == <<coseKey, keyEnc, keyData, keyDec, kpc>>
limitVars == <<call, outcome, lpc>>

(***************************************************************************)
(* Sequences                                                               *)
(***************************************************************************)
\* v handed to F: a value computed once and used under a name
Let(v, F(_)) == F(v)

RECURSIVE Flatten(_)
Flatten(ss) == IF ss = <<>> THEN <<>> ELSE Head(ss) \o Flatten(Tail(ss))

Slice(s, from, to) == SubSeq(s, from + 1, to)

Zeros(n) == [i \in 1..n |-> 0]

\* lexicographic order of two sequences of numbers, a proper prefix first:
\* the order of JavaScript's < on strings (by UTF-16 code unit)
RECURSIVE SeqLess(_, _)
SeqLess(a, b) ==
    IF b = <<>> THEN FALSE
    ELSE IF a = <<>> THEN TRUE
    ELSE IF Head(a) # Head(b) THEN Head(a) < Head(b)
    ELSE SeqLess(Tail(a), Tail(b))

(***************************************************************************)
(* Magnitudes: natural numbers as big-endian bytes, no leading zero        *)
(***************************************************************************)
RECURSIVE Canon(_)
Canon(b) == IF b # <<>> /\ Head(b) = 0 THEN Canon(Tail(b)) ELSE b

RECURSIVE MagOfNat(_)
MagOfNat(n) == IF n = 0 THEN <<>> ELSE Append(MagOfNat(n \div 256), n % 256)

MagLess(a, b) == Len(a) < Len(b) \/ (Len(a) = Len(b) /\ SeqLess(a, b))
MagLE(a, b) == a = b \/ MagLess(a, b)

\* a magnitude known to be small, as a TLC integer
RECURSIVE NatOfMag(_)
NatOfMag(a) == IF a = <<>> THEN 0 ELSE 256 * NatOfMag(SubSeq(a, 1, Len(a) - 1)) + a[Len(a)]


RECURSIVE MagIncRaw(_)
MagIncRaw(b) ==
    IF b = <<>> THEN <<1>>
    ELSE IF b[Len(b)] < 255 THEN Append(SubSeq(b, 1, Len(b) - 1), b[Len(b)] + 1)
    ELSE Append(MagIncRaw(SubSeq(b, 1, Len(b) - 1)), 0)
MagInc(a) == MagIncRaw(a)

RECURSIVE MagDecRaw(_)
MagDecRaw(b) ==
    IF b[Len(b)] > 0 THEN Append(SubSeq(b, 1, Len(b) - 1), b[Len(b)] - 1)
    ELSE Append(MagDecRaw(SubSeq(b, 1, Len(b) - 1)), 255)
\* a - 1, for a > 0
MagDec(a) == Canon(MagDecRaw(a))

RECURSIVE MagAdd(_, _)
MagAdd(a, k) == IF k = 0 THEN a ELSE MagAdd(MagInc(a), k - 1)

RECURSIVE MagSub(_, _)
MagSub(a, k) == IF k = 0 \/ a = <<>> THEN a ELSE MagSub(MagDec(a), k - 1)

\* the value as an n-byte big-endian field (DataView.setUintN)
PadTo(a, n) == Zeros(n - Len(a)) \o a

\* quotient and remainder of a magnitude by 10
RECURSIVE DivMod10(_, _, _)
DivMod10(b, r, q) ==
    IF b = <<>> THEN <<Canon(q), r>>
    ELSE DivMod10(Tail(b), (r * 256 + Head(b)) % 10,
                  Append(q, (r * 256 + Head(b)) \div 10))

\* a * 10 + d
RECURSIVE MulAdd10(_, _)
MulAdd10(b, c) ==
    IF b = <<>> THEN MagOfNat(c)
    ELSE Append(MulAdd10(SubSeq(b, 1, Len(b) - 1), (b[Len(b)] * 10 + c) \div 256),
                (b[Len(b)] * 10 + c) % 256)

(***************************************************************************)
(* The Number type: IEEE-754 doubles hold integers exactly up to 2^53 and  *)
(* round to 53 significant bits above (ties to even)                       *)
(***************************************************************************)
BitsOfByte(b) == [i \in 1..8 |-> (b \div (2 ^ (8 - i))) % 2]

RECURSIVE BitsOfBytes(_)
BitsOfBytes(b) == IF b = <<>> THEN <<>> ELSE BitsOfByte(Head(b)) \o BitsOfBytes(Tail(b))

ByteOfBits(t) == t[1] * 128 + t[2] * 64 + t[3] * 32 + t[4] * 16
                 + t[5] * 8 + t[6] * 4 + t[7] * 2 + t[8]

RECURSIVE BytesOfBits(_)
BytesOfBits(t) ==
    IF t = <<>> THEN <<>>
    ELSE <<ByteOfBits(SubSeq(t, 1, 8))>> \o BytesOfBits(SubSeq(t, 9, Len(t)))

MagOfBits(t) == Canon(BytesOfBits(Zeros((8 - (Len(t) % 8)) % 8) \o t))

RECURSIVE BitsInc(_)
BitsInc(t) ==
    IF t = <<>> THEN <<1>>
    ELSE IF t[Len(t)] = 0 THEN Append(SubSeq(t, 1, Len(t) - 1), 1)
    ELSE Append(BitsInc(SubSeq(t, 1, Len(t) - 1)), 0)

MantissaBits == 53

\* the double nearest to the natural number a
\* t, the bits of a number of more than 53 bits, rounded to the nearest
\* double: round up if the cut bits are more than half a unit, or are half
\* a unit and the last kept bit is odd
RoundBits(t) ==
    IF /\ t[MantissaBits + 1] = 1
       /\ (t[MantissaBits] = 1 \/ \E i \in (MantissaBits + 2)..Len(t) : t[i] = 1)
    THEN BitsInc(SubSeq(t, 1, MantissaBits)) \o Zeros(Len(t) - MantissaBits)
    ELSE SubSeq(t, 1, MantissaBits) \o Zeros(Len(t) - MantissaBits)

RoundToDoubleBits(a, t) == IF Len(t) <= MantissaBits THEN a ELSE MagOfBits(RoundBits(t))

RoundToDouble(a) == RoundToDoubleBits(a, Canon(BitsOfBytes(a)))

Num(neg, mag) == <<"num", neg /\ mag # <<>>, mag>>
NatNum(n) == Num(FALSE, MagOfNat(n))
IntNum(n) == IF n < 0 THEN Num(TRUE, MagOfNat(-n)) ELSE NatNum(n)

IsNum(v) == v[1] = "num"
IsNeg(v) == v[2]
MagOf(v) == v[3]

\* Number.MAX_SAFE_INTEGER = 2^53 - 1
MAX_SAFE_INTEGER == <<31, 255, 255, 255, 255, 255, 255>>

(***************************************************************************)
(* Strings                                                                 *)
(***************************************************************************)
RECURSIVE DigitsOf(_)
DigitsOf(a) ==
    IF a = <<>> THEN <<>>
    ELSE Let(DivMod10(a, 0, <<>>), LAMBDA qr : Append(DigitsOf(qr[1]), 48 + qr[2]))

\* Number::toString of an integer below 10^21: the decimal digits
NumberToString(v) ==
    IF MagOf(v) = <<>> THEN <<48>>
    ELSE (IF IsNeg(v) THEN <<45>> ELSE <<>>) \o DigitsOf(MagOf(v))

WhiteSpace == {9, 10, 11, 12, 13, 32}
IsDigit(c) == c >= 48 /\ c <= 57

RECURSIVE TrimLeft(_)
TrimLeft(s) == IF s # <<>> /\ Head(s) \in WhiteSpace THEN TrimLeft(Tail(s)) ELSE s

RECURSIVE TrimRight(_)
TrimRight(s) ==
    IF s # <<>> /\ s[Len(s)] \in WhiteSpace THEN TrimRight(SubSeq(s, 1, Len(s) - 1)) ELSE s

RECURSIVE MagOfDigits(_)
MagOfDigits(s) ==
    IF s = <<>> THEN <<>>
    ELSE MulAdd10(MagOfDigits(SubSeq(s, 1, Len(s) - 1)), s[Len(s)] - 48)

NaN == <<"NaN">>

\* Number(string) (StringToNumber) on strings of white space, signs, decimal
\* digits and characters that occur in no numeric literal: white space is
\* trimmed, the empty string is 0, an optionally signed run of digits is its
\* value (leading zeros allowed), everything else is NaN. The key that
\* stands for a non-integer number (PropertyKey) reads back as that number.
FloatKeyMark == -2

\* the number of the digits after the sign, or NaN
NumberOfDigits(negative, digits) ==
    IF digits # <<>> /\ \A i \in 1..Len(digits) : IsDigit(digits[i])
    THEN Num(negative, RoundToDouble(MagOfDigits(digits)))
    ELSE NaN

\* t the string without its white space
NumberOfTrimmed(t) ==
    IF t = <<>> THEN NatNum(0)
    ELSE IF Head(t) \in {43, 45} THEN NumberOfDigits(Head(t) = 45, Tail(t))
    ELSE NumberOfDigits(FALSE, t)

StringToNumber(s) ==
    IF s # <<>> /\ s[1] = FloatKeyMark THEN <<"float", Tail(s)>>
    ELSE NumberOfTrimmed(TrimRight(TrimLeft(s)))

(***************************************************************************)
(* Results of calls                                                        *)
(***************************************************************************)
Ok(x) == <<"ok", x>>
Err(m) == <<"error", m>>
IsOk(r) == r[1] = "ok"
IsErr(r) == r[1] = "error"

\* the call r threw: the error goes up; it returned: F goes on with the value
Bind(r, F(_)) == IF IsErr(r) THEN r ELSE F(r[2])

\* the bytes of two results one after the other, or the first error
Joined(r1, r2) == Bind(r1, LAMBDA b1 : Bind(r2, LAMBDA b2 : Ok(b1 \o b2)))

(***************************************************************************)
(* UTF-8 (TextEncoder, TextDecoder("utf-8", {fatal: true}))                *)
(***************************************************************************)
IsHighSurrogate(c) == c >= 55296 /\ c <= 56319
IsLowSurrogate(c) == c >= 56320 /\ c <= 57343
IsCont(b) == b >= 128 /\ b <= 191

Utf8OfCodePoint(cp) ==
    IF cp < 128 THEN <<cp>>
    ELSE IF cp < 2048 THEN <<192 + cp \div 64, 128 + (cp % 64)>>
    ELSE IF cp < 65536 THEN <<224 + cp \div 4096, 128 + ((cp \div 64) % 64), 128 + (cp % 64)>>
    ELSE <<240 + cp \div 262144, 128 + ((cp \div 4096) % 64),
           128 + ((cp \div 64) % 64), 128 + (cp % 64)>>

\* TextEncoder.encode: a surrogate pair is one code point, a lone surrogate
\* is replaced by U+FFFD
RECURSIVE Utf8Encode(_)
Utf8Encode(u) ==
    IF u = <<>> THEN <<>>
    ELSE LET c == Head(u) IN
         IF IsHighSurrogate(c) /\ Len(u) >= 2 /\ IsLowSurrogate(u[2])
         THEN Utf8OfCodePoint(65536 + (c - 55296) * 1024 + (u[2] - 56320))
              \o Utf8Encode(Tail(Tail(u)))
         ELSE IF IsHighSurrogate(c) \/ IsLowSurrogate(c)
         THEN <<239, 191, 189>> \o Utf8Encode(Tail(u))
         ELSE Utf8OfCodePoint(c) \o Utf8Encode(Tail(u))

UnitsOfCodePoint(cp) ==
    IF cp < 65536 THEN <<cp>>
    ELSE <<55296 + (cp - 65536) \div 1024, 56320 + ((cp - 65536) % 1024)>>

\* the code units of well-formed UTF-8, or <<-1>> at the first malformed
\* sequence (overlong forms, surrogates and code points above U+10FFFF are
\* malformed)
RECURSIVE Utf8Units(_)
Utf8Units(b) ==
    IF b = <<>> THEN <<>>
    ELSE LET b1 == Head(b)
             n == IF b1 < 128 THEN 1
                  ELSE IF b1 >= 194 /\ b1 <= 223 THEN 2
                  ELSE IF b1 >= 224 /\ b1 <= 239 THEN 3
                  ELSE IF b1 >= 240 /\ b1 <= 244 THEN 4
                  ELSE 0
             lo2 == IF b1 = 224 THEN 160 ELSE IF b1 = 240 THEN 144 ELSE 128
             hi2 == IF b1 = 237 THEN 159 ELSE IF b1 = 244 THEN 143 ELSE 191
             wellFormed == /\ n > 0
                           /\ Len(b) >= n
                           /\ n >= 2 => (b[2] >= lo2 /\ b[2] <= hi2)
                           /\ \A i \in 3..n : IsCont(b[i])
             cp == IF n = 1 THEN b1
                   ELSE IF n = 2 THEN (b1 - 192) * 64 + (b[2] - 128)
                   ELSE IF n = 3 THEN (b1 - 224) * 4096 + (b[2] - 128) * 64 + (b[3] - 128)
                   ELSE (b1 - 240) * 262144 + (b[2] - 128) * 4096
                        + (b[3] - 128) * 64 + (b[4] - 128)
         IN  IF ~wellFormed THEN <<-1>>
             ELSE Let(Utf8Units(SubSeq(b, n + 1, Len(b))),
                      LAMBDA rest : IF rest # <<>> /\ rest[Len(rest)] = -1 THEN <<-1>>
                                    ELSE UnitsOfCodePoint(cp) \o rest)

BOM == 65279

\* TextDecoder.decode with fatal: true and the default ignoreBOM: false, which
\* drops a leading U+FEFF
Utf8Decoded(u) ==
    IF u # <<>> /\ u[Len(u)] = -1 THEN Err("Invalid UTF-8 sequence in text string")
    ELSE IF u # <<>> /\ u[1] = BOM THEN Ok(Tail(u))
    ELSE Ok(u)

Utf8Decode(b) == Utf8Decoded(Utf8Units(b))

(***************************************************************************)
(* Plain objects: own properties in OrdinaryOwnPropertyKeys order, array   *)
(* indices ascending first, then the other keys in insertion order         *)
(***************************************************************************)
MaxArrayIndex == <<255, 255, 255, 254>>

\* n, the number a key reads as, is the array index that key is written as
IsIndexOf(n, k) ==
    /\ IsNum(n)
    /\ ~IsNeg(n)
    /\ NumberToString(n) = k
    /\ MagLE(MagOf(n), MaxArrayIndex)

IsArrayIndex(k) == IsIndexOf(StringToNumber(k), k)

KeyPos(props, k) ==
    IF \E i \in 1..Len(props) : props[i][1] = k
    THEN CHOOSE i \in 1..Len(props) : props[i][1] = k
    ELSE 0

Has(props, k) == KeyPos(props, k) # 0

IndexBefore(k1, k2) == MagLess(MagOf(StringToNumber(k1)), MagOf(StringToNumber(k2)))

\* obj[k] = v
\* the property <<k, v>> put after the first n
InsertAt(props, n, k, v) ==
    SubSeq(props, 1, n) \o <<<<k, v>>>> \o SubSeq(props, n + 1, Len(props))

\* the property <<k, v>> put where its key is, at, or where a new key goes
ObjSetAt(props, at, k, v) ==
    IF at # 0 THEN [props EXCEPT ![at] = <<k, v>>]
    ELSE IF IsArrayIndex(k)
    THEN InsertAt(props,
                  Cardinality({i \in 1..Len(props) :
                                 IsArrayIndex(props[i][1]) /\ IndexBefore(props[i][1], k)}),
                  k, v)
    ELSE Append(props, <<k, v>>)

\* an assignment that leaves a property that exists as it is
ObjSetKeepFirst(props, k, v) == IF Has(props, k) THEN props ELSE ObjSetAt(props, 0, k, v)

ObjSet(props, k, v) == ObjSetAt(props, KeyPos(props, k), k, v)

\* the object built by assigning the entries of ins in order
RECURSIVE ObjFrom(_)
ObjFrom(ins) ==
    IF ins = <<>> THEN <<>>
    ELSE ObjSet(ObjFrom(SubSeq(ins, 1, Len(ins) - 1)), ins[Len(ins)][1], ins[Len(ins)][2])

Obj(ins) == <<"object", ObjFrom(ins)>>

Undefined == <<"undefined">>
Null == <<"null">>
Bool(b) == <<"bool", b>>
Bytes(b) == <<"bytes", b>>
Text(u) == <<"text", u>>
Array(s) == <<"array", s>>

KeyTag == <<116, 97, 103>>
KeyValue == <<118, 97, 108, 117, 101>>
Tagged(t, v) == Obj(<<<<KeyTag, t>>, <<KeyValue, v>>>>)

TypeError == Err("TypeError")

\* the number n a key k reads as is an index below the length of v
IndexInRange(v, n, k) == IsIndexOf(n, k) /\ MagLess(MagOf(n), MagOfNat(Len(v[2])))

InRange(v, k) == IndexInRange(v, StringToNumber(k), k)

\* v[k], property access on any value: own properties of objects, elements
\* of arrays, characters of strings; undefined where there is no such
\* property; a TypeError on null and undefined
\* the value of the property at position at of an object, 0 for none
PropertyAt(props, at) == IF at = 0 THEN Undefined ELSE props[at][2]

\* the element of an array or the character of a string at the index n
ElementAt(v, n) ==
    IF ~MagLess(n, MagOfNat(Len(v[2]))) THEN Undefined
    ELSE IF v[1] = "array" THEN v[2][NatOfMag(n) + 1]
    ELSE Text(<<v[2][NatOfMag(n) + 1]>>)

\* v[k] where the key k reads as the number n
GetIndexed(v, n, k) == IF IsIndexOf(n, k) THEN ElementAt(v, MagOf(n)) ELSE Undefined

Get(v, k) ==
    IF v[1] \in {"null", "undefined"} THEN TypeError
    ELSE IF v[1] = "object" THEN Ok(PropertyAt(v[2], KeyPos(v[2], k)))
    ELSE IF v[1] \in {"array", "text"} THEN Ok(GetIndexed(v, StringToNumber(k), k))
    ELSE Ok(Undefined)

\* k in v: own properties of objects, indices of arrays; an ArrayBuffer has
\* no such property; a TypeError on primitives
In(k, v) ==
    IF v[1] = "object" THEN Ok(Has(v[2], k))
    ELSE IF v[1] = "array" THEN Ok(InRange(v, k))
    ELSE IF v[1] = "bytes" THEN Ok(FALSE)
    ELSE TypeError

(***************************************************************************)
(* Encoding (cbor.ts:344-579)                                              *)
(***************************************************************************)
MAX_BUFFER_SIZE == 16777216
MAX_ITEMS == 10000

\* encodeLength(majorType, length): the initial byte and the argument of an
\* item, the argument in its shortest form of up to 4 bytes
encodeLength(majorType, length) ==
    LET mt == majorType * 32
    IN  IF MagLE(length, <<23>>) THEN Ok(<<mt + (IF length = <<>> THEN 0 ELSE length[1])>>)
        ELSE IF MagLE(length, <<255>>) THEN Ok(<<mt + 24>> \o length)
        ELSE IF MagLE(length, <<255, 255>>) THEN Ok(<<mt + 25>> \o PadTo(length, 2))
        ELSE IF MagLE(length, <<255, 255, 255, 255>>) THEN Ok(<<mt + 26>> \o PadTo(length, 4))
        ELSE Err("Length too large for CBOR encoding")

\* buckets without the 2-byte form: an argument of 256 to 65535 takes 4 bytes
IntegerBucketsWide(base, arg) ==
    IF MagLE(arg, <<23>>) THEN Ok(<<base + (IF arg = <<>> THEN 0 ELSE arg[1])>>)
    ELSE IF MagLE(arg, <<255>>) THEN Ok(<<base + 24>> \o arg)
    ELSE IF MagLE(arg, <<255, 255, 255, 255>>) THEN Ok(<<base + 26>> \o PadTo(arg, 4))
    ELSE IF MagLE(arg, MAX_SAFE_INTEGER) THEN Ok(<<base + 27>> \o PadTo(arg, 8))
    ELSE Err("Integer value too large for CBOR encoding")

\* the five buckets of encodeUnsignedInteger and encodeNegativeInteger, on
\* the argument arg under the initial byte base (0x00 or 0x20)
IntegerBuckets(base, arg) ==
    IF MagLE(arg, <<23>>) THEN Ok(<<base + (IF arg = <<>> THEN 0 ELSE arg[1])>>)
    ELSE IF MagLE(arg, <<255>>) THEN Ok(<<base + 24>> \o arg)
    ELSE IF MagLE(arg, <<255, 255>>) THEN Ok(<<base + 25>> \o PadTo(arg, 2))
    ELSE IF MagLE(arg, <<255, 255, 255, 255>>) THEN Ok(<<base + 26>> \o PadTo(arg, 4))
    ELSE IF MagLE(arg, MAX_SAFE_INTEGER) THEN Ok(<<base + 27>> \o PadTo(arg, 8))
    ELSE Err("Integer value too large for CBOR encoding")

encodeUnsignedInteger(v) ==
    IF ~IsNum(v) \/ IsNeg(v) THEN Err("Only unsigned integers are supported")
    ELSE IntegerBuckets(0, MagOf(v))

\* absValue = Math.abs(value) - 1, computed in double precision
encodeNegativeInteger(v) ==
    IF ~IsNum(v) \/ ~IsNeg(v) THEN Err("Only negative integers are supported")
    ELSE IntegerBuckets(32, RoundToDouble(MagDec(MagOf(v))))

encodeFloat(v) == Ok(<<251>> \o v[2])

\* the head of a byte or text string and its bytes
encodeString(majorType, bytes) == Joined(encodeLength(majorType, MagOfNat(Len(bytes))), Ok(bytes))

encodeByteString(v) == encodeString(2, v[2])

\* on a string (its code units)
encodeTextString(u) == encodeString(3, Utf8Encode(u))

encodeBoolean(v) == Ok(<<IF v[2] THEN 245 ELSE 244>>)
encodeNull == Ok(<<246>>)
encodeUndefined == Ok(<<247>>)

\* entries.sort(([a], [b]) => (a < b ? -1 : a > b ? 1 : 0)): by key, as strings
RECURSIVE InsertEntry(_, _)
InsertEntry(sorted, e) ==
    IF sorted = <<>> THEN <<e>>
    ELSE IF SeqLess(e[1], Head(sorted)[1]) THEN <<e>> \o sorted
    ELSE <<Head(sorted)>> \o InsertEntry(Tail(sorted), e)

\* a sort by the length of the key first and by its text among keys of one
\* length, the order of the encoded keys
LengthFirst(a, b) == Len(a) < Len(b) \/ (Len(a) = Len(b) /\ SeqLess(a, b))
SortEntriesLengthFirst(entries) ==
    [k \in 1..Len(entries) |->
        entries[CHOOSE i \in 1..Len(entries) :
                   Cardinality({j \in 1..Len(entries) :
                                  LengthFirst(entries[j][1], entries[i][1])}) = k - 1]]

\* an encoder that keeps the entries in the order Object.entries gives them
EntriesAsInserted(entries) == entries

RECURSIVE InsertionSort(_)
InsertionSort(entries) ==
    IF entries = <<>> THEN <<>>
    ELSE InsertEntry(InsertionSort(SubSeq(entries, 1, Len(entries) - 1)), entries[Len(entries)])

\* entries.sort(...): entries that are in order already stay as they are
SortEntries(entries) ==
    IF \A i \in 1..(Len(entries) - 1) : SeqLess(entries[i][1], entries[i + 1][1])
    THEN entries
    ELSE InsertionSort(entries)

\* the test of encodeValue for a tagged value:
\* "tag" in value && "value" in value && typeof value.tag === "number"
IsTagged(v) ==
    /\ v[1] = "object"
    /\ Has(v[2], KeyTag)
    /\ Has(v[2], KeyValue)
    /\ PropertyAt(v[2], KeyPos(v[2], KeyTag))[1] \in {"num", "float"}

RECURSIVE encodeValue(_)
RECURSIVE encodeItems(_)
RECURSIVE encodeEntries(_)

\* the concatenation of the encodings of the items, or the first error:
\* the loop over the items, as its first half followed by its second half
encodeItems(items) ==
    IF items = <<>> THEN Ok(<<>>)
    ELSE IF Len(items) = 1 THEN encodeValue(items[1])
    ELSE Joined(encodeItems(SubSeq(items, 1, Len(items) \div 2)),
                encodeItems(SubSeq(items, Len(items) \div 2 + 1, Len(items))))

\* a key that Number() reads as the number numKey is encoded as that
\* number, any other key as a text string
encodeMapKey(key, numKey) ==
    IF numKey # NaN THEN encodeValue(numKey) ELSE encodeTextString(key)

\* the loop of encodeMap, as its first half followed by its second half
encodeEntries(entries) ==
    IF entries = <<>> THEN Ok(<<>>)
    ELSE IF Len(entries) = 1
    THEN Joined(encodeMapKey(entries[1][1], StringToNumber(entries[1][1])),
                encodeValue(entries[1][2]))
    ELSE Joined(encodeEntries(SubSeq(entries, 1, Len(entries) \div 2)),
                encodeEntries(SubSeq(entries, Len(entries) \div 2 + 1, Len(entries))))

encodeArray(v) ==
    IF Len(v[2]) > MAX_ITEMS THEN Err("Array length exceeds reasonable limit")
    ELSE Joined(encodeLength(4, MagOfNat(Len(v[2]))), encodeItems(v[2]))

encodeMap(v) ==
    IF Len(v[2]) > MAX_ITEMS THEN Err("Map size exceeds reasonable limit")
    ELSE Joined(encodeLength(5, MagOfNat(Len(v[2]))), encodeEntries(SortEntries(v[2])))

encodeTag(tag, v) ==
    IF ~IsNum(tag) \/ IsNeg(tag) THEN Err("Tag must be a non-negative integer")
    ELSE Joined(encodeLength(6, MagOf(tag)), encodeValue(v))

encodeValue(v) ==
    IF v[1] = "num" THEN (IF ~IsNeg(v) THEN encodeUnsignedInteger(v)
                          ELSE encodeNegativeInteger(v))
    ELSE IF v[1] = "float" THEN encodeFloat(v)
    ELSE IF v[1] = "bytes" THEN encodeByteString(v)
    ELSE IF v[1] = "text" THEN encodeTextString(v[2])
    ELSE IF v[1] = "array" THEN encodeArray(v)
    ELSE IF v[1] = "object"
         THEN (IF IsTagged(v)
               THEN encodeTag(PropertyAt(v[2], KeyPos(v[2], KeyTag)),
                              PropertyAt(v[2], KeyPos(v[2], KeyValue)))
               ELSE encodeMap(v))
    ELSE IF v[1] = "bool" THEN encodeBoolean(v)
    ELSE IF v[1] = "null" THEN encodeNull
    ELSE IF v[1] = "undefined" THEN encodeUndefined
    ELSE Err("Unsupported value type for CBOR encoding")

\* the check of CBOR.encode on the bytes of encodeValue
\* a test that refuses an output of the maximum size itself
SizedBelow(bytes) ==
    IF Len(bytes) >= MAX_BUFFER_SIZE THEN Err("Encoded data exceeds maximum size")
    ELSE Ok(bytes)

Sized(bytes) ==
    IF Len(bytes) > MAX_BUFFER_SIZE THEN Err("Encoded data exceeds maximum size")
    ELSE Ok(bytes)

\* CBOR.encode
encode(v) == Bind(encodeValue(v), LAMBDA bytes : Sized(bytes))

(***************************************************************************)
(* Floating point numbers read by DataView.getFloat32 / getFloat64         *)
(***************************************************************************)
RECURSIVE NatOfBits(_)
NatOfBits(t) == IF t = <<>> THEN 0 ELSE 2 * NatOfBits(SubSeq(t, 1, Len(t) - 1)) + t[Len(t)]

BitsOfNat(n, width) == [i \in 1..width |-> (n \div (2 ^ (width - i))) % 2]

AllZero(t) == \A i \in 1..Len(t) : t[i] = 0

\* the Number with the binary64 bits b: an integer-valued one is a "num"
Float64Value(b) ==
    LET t == BitsOfBytes(b)
        e == NatOfBits(SubSeq(t, 2, 12))
        f == SubSeq(t, 13, 64)
        m == <<1>> \o f
        E == e - 1023
    IN  IF e = 0 /\ AllZero(f) THEN NatNum(0)
        ELSE IF e = 2047 \/ e = 0 \/ E < 0 THEN <<"float", b>>
        ELSE IF E >= 52 THEN Num(t[1] = 1, MagOfBits(m \o Zeros(E - 52)))
        ELSE IF AllZero(SubSeq(m, E + 2, 53)) THEN Num(t[1] = 1, MagOfBits(SubSeq(m, 1, E + 1)))
        ELSE <<"float", b>>

\* the binary64 bits of the binary32 number with the bits b
Widen32(b) ==
    LET t == BitsOfBytes(b)
        e == NatOfBits(SubSeq(t, 2, 9))
        f == SubSeq(t, 10, 32)
        lead == IF AllZero(f) THEN 0 ELSE CHOOSE i \in 1..23 : f[i] = 1 /\ AllZero(SubSeq(f, 1, i - 1))
    IN  BytesOfBits(
            IF e = 255 THEN <<t[1]>> \o BitsOfNat(2047, 11) \o f \o Zeros(29)
            ELSE IF e = 0 /\ lead = 0 THEN <<t[1]>> \o Zeros(63)
            ELSE IF e = 0
                 THEN <<t[1]>> \o BitsOfNat(1023 - 126 - lead, 11)
                      \o SubSeq(f, lead + 1, 23) \o Zeros(29 + lead)
            ELSE <<t[1]>> \o BitsOfNat(e - 127 + 1023, 11) \o f \o Zeros(29))

Float32Value(b) == Float64Value(Widen32(b))

\* the property key of a Number used as map[key]: Number::toString. The
\* decimal form of a non-integer is not computed: it is the opaque key
\* <<-2>> \o bits, which Number() reads back as that number.
PropertyKey(k) ==
    IF k[1] = "num" THEN NumberToString(k)
    ELSE IF k[1] = "float" THEN <<FloatKeyMark>> \o k[2]
    ELSE k[2]

(***************************************************************************)
(* Decoding (cbor.ts:51-57, 83-337)                                        *)
(***************************************************************************)
\* ensureBytes(dataView, offset, length): TRUE when it throws; length is a
\* magnitude
TooShort(buffer, offset, length) == MagLess(MagOfNat(Len(buffer) - offset), length)

\* readLength, and the identical ladder of decodeUnsignedInteger and
\* decodeNegativeInteger: the argument of an item as a magnitude (an 8-byte
\* argument goes through Number(getBigUint64()), which rounds), and the
\* offset after it
ReadArgumentLenient(buffer, offset, additionalInfo, invalid) ==
    LET width == IF additionalInfo = 24 THEN 1
                 ELSE IF additionalInfo = 25 THEN 2
                 ELSE IF additionalInfo = 26 THEN 4
                 ELSE 8
    IN  IF additionalInfo <= 23 \/ additionalInfo > 27
        THEN Ok(<<MagOfNat(additionalInfo), offset>>)
        ELSE IF TooShort(buffer, offset, MagOfNat(width)) THEN Err("Buffer too short for CBOR data")
        ELSE Ok(<<RoundToDouble(Canon(Slice(buffer, offset, offset + width))), offset + width>>)

ReadArgument(buffer, offset, additionalInfo, invalid) ==
    LET width == IF additionalInfo = 24 THEN 1
                 ELSE IF additionalInfo = 25 THEN 2
                 ELSE IF additionalInfo = 26 THEN 4
                 ELSE 8
    IN  IF additionalInfo <= 23 THEN Ok(<<MagOfNat(additionalInfo), offset>>)
        ELSE IF additionalInfo > 27 THEN Err(invalid)
        ELSE IF TooShort(buffer, offset, MagOfNat(width)) THEN Err("Buffer too short for CBOR data")
        ELSE Ok(<<RoundToDouble(Canon(Slice(buffer, offset, offset + width))), offset + width>>)

readLength(buffer, offset, additionalInfo) ==
    ReadArgument(buffer, offset, additionalInfo, "Unsupported CBOR length encoding")

\* an item and the offset after it
Item(v, next) == Ok(<<v, next>>)

decodeUnsignedInteger(buffer, offset, additionalInfo) ==
    Bind(ReadArgument(buffer, offset, additionalInfo,
                      "Invalid additional info for unsigned integer"),
         LAMBDA r : Item(Num(FALSE, r[1]), r[2]))

\* a decoder that reads the argument of major type 1 as the magnitude itself
decodeNegativeAsMagnitude(buffer, offset, additionalInfo) ==
    Bind(ReadArgument(buffer, offset, additionalInfo,
                      "Invalid additional info for negative integer"),
         LAMBDA r : Item(Num(TRUE, r[1]), r[2]))

\* -1 - argument, in double precision
decodeNegativeInteger(buffer, offset, additionalInfo) ==
    Bind(ReadArgument(buffer, offset, additionalInfo,
                      "Invalid additional info for negative integer"),
         LAMBDA r : Item(Num(TRUE, RoundToDouble(MagInc(r[1]))), r[2]))

\* the length bytes from offset, after ensureBytes
Content(buffer, offset, length) ==
    IF TooShort(buffer, offset, length) THEN Err("Buffer too short for CBOR data")
    ELSE Item(Slice(buffer, offset, offset + NatOfMag(length)), offset + NatOfMag(length))

decodeByteString(buffer, offset, additionalInfo) ==
    Bind(readLength(buffer, offset, additionalInfo),
         LAMBDA r : Bind(Content(buffer, r[2], r[1]),
                         LAMBDA c : Item(Bytes(c[1]), c[2])))

decodeTextString(buffer, offset, additionalInfo) ==
    Bind(readLength(buffer, offset, additionalInfo),
         LAMBDA r : Bind(Content(buffer, r[2], r[1]),
                         LAMBDA c : Bind(Utf8Decode(c[1]),
                                         LAMBDA u : Item(Text(u), c[2]))))

\* case 25 checks for 2 bytes, reads 4 with getFloat32 (a RangeError when
\* fewer than 4 are left) and advances by 2
decodeSpecial(buffer, offset, additionalInfo) ==
    IF additionalInfo = 20 THEN Ok(<<Bool(FALSE), offset>>)
    ELSE IF additionalInfo = 21 THEN Ok(<<Bool(TRUE), offset>>)
    ELSE IF additionalInfo = 22 THEN Ok(<<Null, offset>>)
    ELSE IF additionalInfo = 23 THEN Ok(<<Undefined, offset>>)
    ELSE IF additionalInfo = 25
         THEN IF TooShort(buffer, offset, <<2>>) THEN Err("Buffer too short for CBOR data")
              ELSE IF TooShort(buffer, offset, <<4>>) THEN Err("RangeError")
              ELSE Ok(<<Float32Value(Slice(buffer, offset, offset + 4)), offset + 2>>)
    ELSE IF additionalInfo = 26
         THEN IF TooShort(buffer, offset, <<4>>) THEN Err("Buffer too short for CBOR data")
              ELSE Ok(<<Float32Value(Slice(buffer, offset, offset + 4)), offset + 4>>)
    ELSE IF additionalInfo = 27
         THEN IF TooShort(buffer, offset, <<8>>) THEN Err("Buffer too short for CBOR data")
              ELSE Ok(<<Float64Value(Slice(buffer, offset, offset + 8)), offset + 8>>)
    ELSE Err("Unsupported special value")

RECURSIVE decodeFirstItem(_, _)
RECURSIVE decodeItems(_, _, _, _)
RECURSIVE decodePairs(_, _, _, _)
RECURSIVE decodeMajor(_, _, _, _)

\* a loop that decodes every item from the offset of the first
decodeItemsInPlace(buffer, offset, n, array) ==
    IF n = 0 THEN Item(Array(array), offset)
    ELSE IF n = 1
    THEN Bind(decodeFirstItem(buffer, offset),
              LAMBDA item : Item(Array(Append(array, item[1])), item[2]))
    ELSE Bind(decodeItems(buffer, offset, n \div 2, array),
              LAMBDA half : decodeItems(buffer, offset, n - n \div 2, half[1][2]))

\* the loop of decodeArray: n more items from offset, appended to array;
\* more than one item as the first half of them followed by the rest
decodeItems(buffer, offset, n, array) ==
    IF n = 0 THEN Item(Array(array), offset)
    ELSE IF n = 1
    THEN Bind(decodeFirstItem(buffer, offset),
              LAMBDA item : Item(Array(Append(array, item[1])), item[2]))
    ELSE Bind(decodeItems(buffer, offset, n \div 2, array),
              LAMBDA half : decodeItems(buffer, half[2], n - n \div 2, half[1][2]))

\* the loop of decodeMap: n more pairs from offset, assigned to map; more
\* than one pair as the first half of them followed by the rest
decodePairs(buffer, offset, n, map) ==
    IF n = 0 THEN Item(<<"object", map>>, offset)
    ELSE IF n = 1
    THEN Bind(decodeFirstItem(buffer, offset),
              LAMBDA key :
                  IF key[1][1] \notin {"text", "num", "float"}
                  THEN Err("CBOR map keys must be strings or numbers")
                  ELSE Bind(decodeFirstItem(buffer, key[2]),
                            LAMBDA val :
                                Item(<<"object", ObjSet(map, PropertyKey(key[1]), val[1])>>,
                                     val[2])))
    ELSE Bind(decodePairs(buffer, offset, n \div 2, map),
              LAMBDA half : decodePairs(buffer, half[2], n - n \div 2, half[1][2]))

\* a decoder that refuses an array of the maximum count itself
decodeArrayBelow(buffer, offset, additionalInfo) ==
    Bind(readLength(buffer, offset, additionalInfo),
         LAMBDA r : IF MagLE(MagOfNat(MAX_ITEMS), r[1])
                    THEN Err("Array length exceeds reasonable limit")
                    ELSE decodeItems(buffer, r[2], NatOfMag(r[1]), <<>>))

decodeArray(buffer, offset, additionalInfo) ==
    Bind(readLength(buffer, offset, additionalInfo),
         LAMBDA r : IF MagLess(MagOfNat(MAX_ITEMS), r[1])
                    THEN Err("Array length exceeds reasonable limit")
                    ELSE decodeItems(buffer, r[2], NatOfMag(r[1]), <<>>))

decodeMap(buffer, offset, additionalInfo) ==
    Bind(readLength(buffer, offset, additionalInfo),
         LAMBDA r : IF MagLess(MagOfNat(MAX_ITEMS), r[1])
                    THEN Err("Map size exceeds reasonable limit")
                    ELSE decodePairs(buffer, r[2], NatOfMag(r[1]), <<>>))

decodeTag(buffer, offset, additionalInfo) ==
    Bind(readLength(buffer, offset, additionalInfo),
         LAMBDA r : Bind(decodeFirstItem(buffer, r[2]),
                         LAMBDA inner : Item(Tagged(Num(FALSE, r[1]), inner[1]), inner[2])))

\* the switch of decodeFirstItem on the major type
decodeMajor(buffer, majorType, additionalInfo, offset) ==
    IF majorType = 0 THEN decodeUnsignedInteger(buffer, offset, additionalInfo)
    ELSE IF majorType = 1 THEN decodeNegativeInteger(buffer, offset, additionalInfo)
    ELSE IF majorType = 2 THEN decodeByteString(buffer, offset, additionalInfo)
    ELSE IF majorType = 3 THEN decodeTextString(buffer, offset, additionalInfo)
    ELSE IF majorType = 4 THEN decodeArray(buffer, offset, additionalInfo)
    ELSE IF majorType = 5 THEN decodeMap(buffer, offset, additionalInfo)
    ELSE IF majorType = 6 THEN decodeTag(buffer, offset, additionalInfo)
    ELSE decodeSpecial(buffer, offset, additionalInfo)

decodeFirstItem(buffer, startOffset) ==
    IF startOffset >= Len(buffer) THEN Err("Buffer too short for CBOR decoding")
    ELSE decodeMajor(buffer, buffer[startOffset + 1] \div 32, buffer[startOffset + 1] % 32,
                     startOffset + 1)

\* a decode that refuses a buffer in which bytes follow the item
decodeExactly(buffer) ==
    IF Len(buffer) > MAX_BUFFER_SIZE THEN Err("Buffer exceeds maximum size")
    ELSE Bind(decodeFirstItem(buffer, 0),
              LAMBDA item : IF item[2] # Len(buffer) THEN Err("Bytes after the item")
                            ELSE Ok(item[1]))

\* CBOR.decode(buffer), buffer the content of an ArrayBuffer
decode(buffer) ==
    IF Len(buffer) > MAX_BUFFER_SIZE THEN Err("Buffer exceeds maximum size")
    ELSE Bind(decodeFirstItem(buffer, 0), LAMBDA item : Ok(item[1]))

\* CBOR.decode(v) on any value: reading byteLength of null or undefined and
\* new DataView() of anything but an ArrayBuffer are TypeErrors
decodeAny(v) == IF v[1] = "bytes" THEN decode(v[2]) ELSE TypeError

(***************************************************************************)
(* Values handed to the byte codec                                         *)
(***************************************************************************)
MaxLen == 2      \* longest text, byte string and array
MaxProps == 2    \* most properties of an object
MaxDelta == 1    \* distance of the integer samples from a bucket boundary

SeqsUpTo(S, n) == UNION {[1..m -> S] : m \in 0..n}

\* the bucket boundaries of the integer encodings and a value inside each
\* bucket: 0, 23|24, 255|256, 1000, 65535|65536, 10^6, 2^32-1|2^32, 2^40,
\* 2^53-1|2^53
Boundaries ==
    {<<>>, <<23>>, <<255>>, <<3, 232>>, <<255, 255>>, <<15, 66, 64>>,
     <<255, 255, 255, 255>>, <<1, 0, 0, 0, 0, 0>>, MAX_SAFE_INTEGER}

IsDouble(a) == RoundToDouble(a) = a

Magnitudes ==
    {a \in {MagAdd(b, d) : b \in Boundaries, d \in 0..(MaxDelta + 1)}
           \cup {MagSub(b, d) : b \in Boundaries, d \in 0..MaxDelta} : IsDouble(a)}

IntegerSamples == {Num(neg, a) : neg \in BOOLEAN, a \in Magnitudes}

\* 'a', e-acute (2 bytes of UTF-8), a CJK ideograph (3 bytes), the byte order
\* mark, a high and a low surrogate
TextChars == {97, 233, 26085, BOM, 55357, 56832}
TextSamples == {Text(u) : u \in SeqsUpTo(TextChars, MaxLen)}

ByteSamples == {Bytes(b) : b \in SeqsUpTo({0, 24, 255}, MaxLen)}
                 \cup {Bytes(Zeros(24)), Bytes(Zeros(256))}

Scalars == IntegerSamples \cup TextSamples \cup ByteSamples
             \cup {Bool(TRUE), Bool(FALSE), Null, Undefined}

\* property keys: "", "0", "01", "-1", "10", "2", "a", "tag", "value"
Keys == {<<>>, <<48>>, <<48, 49>>, <<45, 49>>, <<49, 48>>, <<50>>, <<97>>,
         KeyTag, KeyValue}

Injective(f) == \A i, j \in DOMAIN f : i # j => f[i] # f[j]

\* the sequences of up to n assignments obj[key] = value to distinct keys
InsertionsOver(K, V, n) ==
    UNION {{[i \in 1..m |-> <<ks[i], vs[i]>>] :
               ks \in {f \in [1..m -> K] : Injective(f)}, vs \in [1..m -> V]} : m \in 0..n}

ObjectsOver(K, V, n) == {Obj(ins) : ins \in InsertionsOver(K, V, n)}

Nested == Obj(<<<<<<97>>, Text(<<97>>)>>, <<<<45, 49>>, Null>>>>)
MemberValues == {NatNum(1), Nested}
ArrayMembers == {NatNum(1), Text(<<97>>), Null, Nested}

\* what stands under the key "tag": the tag numbers 0, 23, 24, 255, 256,
\* 65535, 65536, 2^32-1, 2^32 and 2^53-1, then -1, 1.5, "a" and null
TagNumbers ==
    {Num(FALSE, a) : a \in {<<>>, <<23>>, <<24>>, <<255>>, <<1, 0>>, <<255, 255>>, <<1, 0, 0>>,
                             <<255, 255, 255, 255>>, <<1, 0, 0, 0, 0>>, MAX_SAFE_INTEGER}}
TagValues ==
    TagNumbers \cup {IntNum(-1), <<"float", <<63, 248, 0, 0, 0, 0, 0, 0>>>>, Text(<<97>>), Null}
TaggedInner == {NatNum(1), Text(<<97>>), Nested, Tagged(NatNum(1), NatNum(0))}

\* { tag, value }, and objects that have other properties besides the two
TaggedSamples ==
    {Tagged(t, v) : t \in TagValues, v \in TaggedInner}
      \cup {Obj(<<<<<<97>>, NatNum(2)>>, <<KeyTag, t>>, <<KeyValue, NatNum(1)>>>>) : t \in TagValues}
      \cup {Obj(<<<<KeyValue, Text(<<97>>)>>, <<KeyTag, t>>, <<<<50>>, Nested>>>>) : t \in TagValues}

Values ==
    Scalars
      \cup TaggedSamples
      \cup ObjectsOver(Keys, MemberValues, MaxProps)
      \cup {Array(a) : a \in SeqsUpTo(ArrayMembers, MaxLen)}
      \cup {Array(<<o>>) : o \in ObjectsOver(Keys, {NatNum(1)}, 2)}

\* the properties in another order: the k-th permutation
RECURSIVE Permute(_, _)
Permute(q, k) ==
    IF q = <<>> THEN <<>>
    ELSE LET i == (k % Len(q)) + 1
         IN  <<q[i]>> \o Permute(SubSeq(q, 1, i - 1) \o SubSeq(q, i + 1, Len(q)), k \div Len(q))

\* the value with the same entries at every level, every object built by
\* assigning its properties in the k-th order
RECURSIVE Rebuilt(_, _)
Rebuilt(v, k) ==
    IF v[1] = "array" THEN Array([i \in 1..Len(v[2]) |-> Rebuilt(v[2][i], k)])
    ELSE IF v[1] = "object"
         THEN Obj(Permute([i \in 1..Len(v[2]) |-> <<v[2][i][1], Rebuilt(v[2][i][2], k)>>], k))
    ELSE v

\* structural equality (toEqual): byte strings by content, objects by their
\* set of keys and the values under them, whatever the order
RECURSIVE StructEq(_, _)
StructEq(a, b) ==
    IF a[1] # b[1] THEN FALSE
    ELSE IF a[1] = "array"
         THEN Len(a[2]) = Len(b[2]) /\ \A i \in 1..Len(a[2]) : StructEq(a[2][i], b[2][i])
    ELSE IF a[1] = "object"
         THEN /\ Len(a[2]) = Len(b[2])
              /\ \A i \in 1..Len(a[2]) :
                    /\ Has(b[2], a[2][i][1])
                    /\ StructEq(a[2][i][2], b[2][KeyPos(b[2], a[2][i][1])][2])
    ELSE a = b

None == <<"none">>

\* the orders tried: every permutation of up to three properties
MaxOrder == 5
Orders == 0..MaxOrder

(***************************************************************************)
(* A caller of the byte codec: CBOR.encode of a value and of the same      *)
(* value built in another order, CBOR.decode of the output, CBOR.encode of *)
(* what was decoded                                                        *)
(***************************************************************************)
CborIdle ==
    /\ value = None /\ twin = None /\ encoded = None /\ encodedTwin = None
    /\ decoded = None /\ reencoded = None /\ pc = "idle"

CborInit ==
    /\ value \in Values
    /\ twin = None /\ encoded = None /\ encodedTwin = None
    /\ decoded = None /\ reencoded = None /\ pc = "start"

Encode ==
    /\ pc = "start"
    /\ encoded' = encode(value)
    /\ pc' = "encoded"
    /\ UNCHANGED <<value, twin, encodedTwin, decoded, reencoded>>
    /\ UNCHANGED <<coseVars, wireVars, keyVars, limitVars>>

EncodeTwin ==
    /\ pc = "encoded"
    /\ \E k \in Orders :
          /\ twin' = Rebuilt(value, k)
          /\ encodedTwin' = encode(twin')
    /\ pc' = "twin"
    /\ UNCHANGED <<value, encoded, decoded, reencoded>>
    /\ UNCHANGED <<coseVars, wireVars, keyVars, limitVars>>

Decode ==
    /\ pc = "encoded"
    /\ IsOk(encoded)
    /\ decoded' = decode(encoded[2])
    /\ pc' = "decoded"
    /\ UNCHANGED <<value, twin, encoded, encodedTwin, reencoded>>
    /\ UNCHANGED <<coseVars, wireVars, keyVars, limitVars>>

ReEncode ==
    /\ pc = "decoded"
    /\ IsOk(decoded)
    /\ reencoded' = encode(decoded[2])
    /\ pc' = "done"
    /\ UNCHANGED <<value, twin, encoded, encodedTwin, decoded>>
    /\ UNCHANGED <<coseVars, wireVars, keyVars, limitVars>>

\* the caller decodes less than it encoded: the first n bytes, n less than
\* the length
DecodePrefix ==
    /\ pc = "encoded"
    /\ IsOk(encoded)
    /\ \E n \in 0..(Len(encoded[2]) - 1) :
          /\ wire' = SubSeq(encoded[2], 1, n)
          /\ wireDec' = decode(wire')
    /\ wpc' = "prefix"
    /\ pc' = "cut"
    /\ UNCHANGED <<value, twin, encoded, encodedTwin, decoded, reencoded>>
    /\ UNCHANGED <<wireStart, wireItem, coseVars, keyVars, limitVars>>

\* bytes that follow an item in a buffer: an item, no item, and the bytes of
\* an envelope
TrailingBytes == {<<0>>, <<255>>, <<246, 0>>, <<31, 255, 255, 255>>, <<210, 132, 64, 160>>}

\* the caller decodes more than it encoded: the encoding followed by other
\* bytes
DecodeFollowed ==
    /\ pc = "encoded"
    /\ IsOk(encoded)
    /\ \E s \in TrailingBytes :
          /\ wire' = encoded[2] \o s
          /\ wireDec' = decode(wire')
    /\ wpc' = "followed"
    /\ pc' = "followed"
    /\ UNCHANGED <<value, twin, encoded, encodedTwin, decoded, reencoded>>
    /\ UNCHANGED <<wireStart, wireItem, coseVars, keyVars, limitVars>>

CborNext == Encode \/ EncodeTwin \/ Decode \/ ReEncode \/ DecodePrefix \/ DecodeFollowed

(***************************************************************************)
(* The envelope codec (cose.ts:5-56, 200-217, 274-520). An envelope is a   *)
(* record with the fields of its interface; signatures and recipients are  *)
(* sequences of records.                                                   *)
(***************************************************************************)
COSE_Encrypt == 96
COSE_Encrypt0 == 16
COSE_Mac == 97
COSE_Mac0 == 17
COSE_Sign == 98
COSE_Sign1 == 18

\* the values of enum COSEAlgorithm, in the order of its declaration
COSEAlgorithm ==
    {30, 31, 10, 12, 32, 33, 13, 14, 1, 2, 3, 24, -6, -8, -7, -35, -36,
     5, 4, 6, 7, -37, -38, -39, -257, -258, -259}

\* alg in COSEAlgorithm, alg a number: the numeric enum compiles to an
\* object with a property per member name and, the reverse mapping, one per
\* member value; the string of a number is never a member name
InCOSEAlgorithm(alg) ==
    PropertyKey(alg) \in {NumberToString(IntNum(n)) : n \in COSEAlgorithm}

\* the property key of COSEHeader.alg = 1
KeyAlg == PropertyKey(NatNum(1))

MissingAlg == "Protected header must contain 'alg' parameter"
UnsupportedAlg == "Invalid or unsupported algorithm in protected header"

\* a test of the value under key 1 that takes every number
RegisteredAnyNumber(alg) ==
    IF alg[1] \notin {"num", "float"} THEN Err(UnsupportedAlg) ELSE Ok(Undefined)

\* the test of the value under key 1
Registered(alg) ==
    IF alg[1] \notin {"num", "float"} \/ ~InCOSEAlgorithm(alg)
    THEN Err(UnsupportedAlg)
    ELSE Ok(Undefined)

\* a validation that reads header[1] without the test of 1 in header
validateWithoutPresence(header) ==
    Bind(Get(header, KeyAlg), LAMBDA alg : Registered(alg))

validateProtectedHeader(header) ==
    Bind(In(KeyAlg, header),
         LAMBDA has : IF ~has THEN Err(MissingAlg)
                      ELSE Bind(Get(header, KeyAlg), LAMBDA alg : Registered(alg)))

ensureArrayBuffer(v) ==
    IF v[1] # "bytes" THEN Err("Expected ArrayBuffer") ELSE Ok(v)

\* validateProtectedHeader(h) then CBOR.encode(h) wrapped as an ArrayBuffer,
\* the first statements of every encoder and of every .map callback
ProtectedBytes(header) ==
    Bind(validateProtectedHeader(header),
         LAMBDA valid : Bind(encode(header), LAMBDA protectedHeader : Ok(Bytes(protectedHeader))))

\* list.map((el) => [bytes of el.protected, el.unprotected, el[terminal]]),
\* or the error of the first element that throws
RECURSIVE encodeElements(_, _)
encodeElements(list, terminal) ==
    IF list = <<>> THEN Ok(<<>>)
    ELSE Bind(ProtectedBytes(list[1].protected),
              LAMBDA head :
                  Bind(encodeElements(Tail(list), terminal),
                       LAMBDA rest :
                           Ok(<<Array(<<head, list[1].unprotected, list[1][terminal]>>)>>
                                \o rest)))

\* an encoder that puts the protected header into the array as a map
encodeEnvelopeArrayOfMaps(tag, envelope, rest) ==
    Bind(validateProtectedHeader(envelope.protected),
         LAMBDA valid :
             Bind(rest,
                  LAMBDA fields :
                      encode(Tagged(NatNum(tag),
                                    Array(<<envelope.protected, envelope.unprotected>> \o fields)))))

\* CBOR.encode({ tag, value }) of the array that starts with the protected
\* bytes and the unprotected header
encodeEnvelopeArray(tag, envelope, rest) ==
    Bind(ProtectedBytes(envelope.protected),
         LAMBDA protectedHeader :
             Bind(rest,
                  LAMBDA fields :
                      encode(Tagged(NatNum(tag),
                                    Array(<<protectedHeader, envelope.unprotected>> \o fields)))))

\* the signatures or recipients as the last field
Listed(list, terminal) ==
    Bind(encodeElements(list, terminal), LAMBDA elements : Ok(<<Array(elements)>>))

encodeSign1(sign1) ==
    encodeEnvelopeArray(COSE_Sign1, sign1, Ok(<<sign1.payload, sign1.signature>>))

encodeSign(sign) ==
    encodeEnvelopeArray(COSE_Sign, sign,
                        Joined(Ok(<<sign.payload>>), Listed(sign.signatures, "signature")))

encodeMac0(mac0) ==
    encodeEnvelopeArray(COSE_Mac0, mac0, Ok(<<mac0.payload, mac0.tag>>))

encodeMac(mac) ==
    encodeEnvelopeArray(COSE_Mac, mac,
                        Joined(Ok(<<mac.payload>>), Listed(mac.recipients, "tag")))

encodeEncrypt0(encrypt0) ==
    encodeEnvelopeArray(COSE_Encrypt0, encrypt0, Ok(<<encrypt0.ciphertext>>))

encodeEncrypt(encrypt) ==
    encodeEnvelopeArray(COSE_Encrypt, encrypt,
                        Joined(Ok(<<encrypt.ciphertext>>),
                               Listed(encrypt.recipients, "encrypted_key")))

\* v[i]
At(v, i) == Get(v, PropertyKey(NatNum(i)))

\* v[i] of a value that is neither null nor undefined
Field(v, i) == At(v, i)[2]

\* CBOR.decode(body[0]) and validateProtectedHeader of it: the pair of the
\* body and the protected header
WithProtected(body) ==
    Bind(At(body, 0),
         LAMBDA first :
             Bind(decodeAny(first),
                  LAMBDA protectedHeader :
                      Bind(validateProtectedHeader(protectedHeader),
                           LAMBDA valid : Ok(<<body, protectedHeader>>))))

\* the test of tagged.tag and what follows it on tagged.value
OpenedTagged(tagged, tag, name) ==
    Bind(Get(tagged, KeyTag),
         LAMBDA got :
             IF got # NatNum(tag) THEN Err(<<"Expected tag", name, tag, "got", got>>)
             ELSE Bind(Get(tagged, KeyValue), LAMBDA body : WithProtected(body)))

\* the statements every decoder starts with: CBOR.decode(data), the test of
\* tagged.tag, CBOR.decode(decoded[0]) and validateProtectedHeader
Opened(buffer, tag, name) ==
    Bind(decode(buffer), LAMBDA tagged : OpenedTagged(tagged, tag, name))

\* the object a .map callback of a decoder returns
Element(elProtected, unprotected, terminal, last) ==
    [f \in {"protected", "unprotected", terminal} |->
        IF f = "protected" THEN elProtected
        ELSE IF f = "unprotected" THEN unprotected
        ELSE last]

\* one call of the .map callback of a decoder
decodeElement(el, terminal) ==
    Bind(WithProtected(el),
         LAMBDA open :
             Bind(ensureArrayBuffer(Field(el, 2)),
                  LAMBDA last : Ok(Element(open[2], Field(el, 1), terminal, last))))

RECURSIVE decodeElementsFrom(_, _)
decodeElementsFrom(items, terminal) ==
    IF items = <<>> THEN Ok(<<>>)
    ELSE Bind(decodeElement(items[1], terminal),
              LAMBDA head :
                  Bind(decodeElementsFrom(Tail(items), terminal),
                       LAMBDA rest : Ok(<<head>> \o rest)))

\* decoded[3].map(...): only an array has a map method
decodeElements(list, terminal) ==
    IF list[1] # "array" THEN TypeError ELSE decodeElementsFrom(list[2], terminal)

decodeSign1(buffer) ==
    Bind(Opened(buffer, COSE_Sign1, "COSE_Sign1"),
         LAMBDA open :
             Bind(ensureArrayBuffer(Field(open[1], 3)),
                  LAMBDA signature :
                      Ok([protected |-> open[2],
                          unprotected |-> Field(open[1], 1),
                          payload |-> Field(open[1], 2),
                          signature |-> signature])))

decodeSign(buffer) ==
    Bind(Opened(buffer, COSE_Sign, "COSE_Sign"),
         LAMBDA open :
             Bind(decodeElements(Field(open[1], 3), "signature"),
                  LAMBDA signatures :
                      Ok([protected |-> open[2],
                          unprotected |-> Field(open[1], 1),
                          payload |-> Field(open[1], 2),
                          signatures |-> signatures])))

decodeMac0(buffer) ==
    Bind(Opened(buffer, COSE_Mac0, "COSE_Mac0"),
         LAMBDA open :
             Bind(ensureArrayBuffer(Field(open[1], 3)),
                  LAMBDA tag :
                      Ok([protected |-> open[2],
                          unprotected |-> Field(open[1], 1),
                          payload |-> Field(open[1], 2),
                          tag |-> tag])))

decodeMac(buffer) ==
    Bind(Opened(buffer, COSE_Mac, "COSE_Mac"),
         LAMBDA open :
             Bind(decodeElements(Field(open[1], 3), "tag"),
                  LAMBDA recipients :
                      Ok([protected |-> open[2],
                          unprotected |-> Field(open[1], 1),
                          payload |-> Field(open[1], 2),
                          recipients |-> recipients])))

decodeEncrypt0(buffer) ==
    Bind(Opened(buffer, COSE_Encrypt0, "COSE_Encrypt0"),
         LAMBDA open :
             Bind(ensureArrayBuffer(Field(open[1], 2)),
                  LAMBDA ciphertext :
                      Ok([protected |-> open[2],
                          unprotected |-> Field(open[1], 1),
                          ciphertext |-> ciphertext])))

decodeEncrypt(buffer) ==
    Bind(Opened(buffer, COSE_Encrypt, "COSE_Encrypt"),
         LAMBDA open :
             Bind(ensureArrayBuffer(Field(open[1], 2)),
                  LAMBDA ciphertext :
                      Bind(decodeElements(Field(open[1], 3), "encrypted_key"),
                           LAMBDA recipients :
                               Ok([protected |-> open[2],
                                   unprotected |-> Field(open[1], 1),
                                   ciphertext |-> ciphertext,
                                   recipients |-> recipients]))))

(***************************************************************************)
(* Envelopes handed to the encoders                                        *)
(***************************************************************************)
MaxElems == 2    \* most signatures or recipients of an envelope

Key(n) == PropertyKey(IntNum(n))
Kid == Bytes(<<49, 49>>)
Header(alg) == Obj(<<<<KeyAlg, alg>>>>)
HeaderEmpty == Obj(<<>>)
\* labels -1 and -2 are no array indices: their insertion order shows
HeaderNeg == Obj(<<<<Key(-1), NatNum(1)>>, <<KeyAlg, IntNum(-7)>>, <<Key(-2), Kid>>>>)
\* a content type out of the safe range: CBOR.encode refuses the header
HeaderBig == Obj(<<<<KeyAlg, IntNum(-7)>>, <<Key(3), Num(FALSE, MagInc(MAX_SAFE_INTEGER))>>>>)
HeaderNoAlg == Obj(<<<<Key(4), Kid>>>>)
HeaderKid == Obj(<<<<KeyAlg, IntNum(-8)>>, <<Key(4), Kid>>>>)
UnprotectedNeg == Obj(<<<<Key(-2), Null>>, <<Key(-1), Kid>>>>)
UnprotectedCtyp == Obj(<<<<Key(3), Text(<<BOM, 97>>)>>>>)
UnprotectedMap == Obj(<<<<Key(4), Obj(<<<<<<>>, NatNum(1)>>>>)>>>>)

OtherIntegers == {999, 0, -1, 8, 9, 11, 15, 25, 34, -9, -40, -256, -260}
OneAndAHalf == <<"float", <<63, 248, 0, 0, 0, 0, 0, 0>>>>
AlgSamples ==
    {IntNum(n) : n \in COSEAlgorithm \cup OtherIntegers}
      \cup {OneAndAHalf, Text(<<45, 55>>), Null, Undefined, Bytes(<<38>>), Array(<<IntNum(-7)>>)}

Payloads == {Null, Bytes(<<1, 2>>)}
Terminal == Bytes(<<1, 2, 3, 4>>)

OuterProtected == {HeaderEmpty, Header(IntNum(-7)), Header(NatNum(999)), HeaderNeg, HeaderBig, HeaderNoAlg}
OuterUnprotected == {HeaderEmpty, HeaderKid, UnprotectedNeg, UnprotectedCtyp, UnprotectedMap}
ListedProtected == {HeaderEmpty, Header(IntNum(-7)), Header(NatNum(999)), HeaderNeg, HeaderBig}
ListedUnprotected == {HeaderEmpty, UnprotectedCtyp}
ElementHeaders ==
    {<<p, HeaderEmpty>> : p \in {HeaderEmpty, Header(IntNum(-7)), Header(IntNum(-8)), Header(NatNum(999))}}
      \cup {<<HeaderKid, UnprotectedNeg>>}

Sign1s ==
    [protected : OuterProtected, unprotected : OuterUnprotected,
     payload : Payloads, signature : {Terminal}]
      \cup [protected : {Header(a) : a \in AlgSamples}, unprotected : {HeaderEmpty},
            payload : {Null}, signature : {Terminal}]
Mac0s ==
    [protected : OuterProtected, unprotected : OuterUnprotected,
     payload : Payloads, tag : {Terminal}]
Encrypt0s ==
    [protected : OuterProtected, unprotected : OuterUnprotected, ciphertext : {Terminal}]

ElementsOf(terminal) ==
    {[f \in {"protected", "unprotected", terminal} |->
         IF f = "protected" THEN h[1] ELSE IF f = "unprotected" THEN h[2] ELSE Terminal] :
       h \in ElementHeaders}

Signs ==
    [protected : ListedProtected, unprotected : ListedUnprotected, payload : {Null},
     signatures : SeqsUpTo(ElementsOf("signature"), MaxElems)]
Macs ==
    [protected : ListedProtected, unprotected : ListedUnprotected, payload : {Null},
     recipients : SeqsUpTo(ElementsOf("tag"), MaxElems)]
Encrypts ==
    [protected : ListedProtected, unprotected : ListedUnprotected, ciphertext : {Terminal},
     recipients : SeqsUpTo(ElementsOf("encrypted_key"), MaxElems)]

ListField(e) == IF "signatures" \in DOMAIN e THEN "signatures" ELSE "recipients"
IsListed(e) == "signatures" \in DOMAIN e \/ "recipients" \in DOMAIN e
ValueFields(e) == DOMAIN e \ {"signatures", "recipients"}

\* the envelope with every header map built in the k-th insertion order
RebuiltEnvelope(e, k) ==
    [f \in DOMAIN e |->
        IF f \in {"signatures", "recipients"}
        THEN [i \in 1..Len(e[f]) |-> [g \in DOMAIN e[f][i] |-> Rebuilt(e[f][i][g], k)]]
        ELSE Rebuilt(e[f], k)]

\* structural equality of two envelopes (toEqual), lists in order
EnvelopeEq(a, b) ==
    /\ DOMAIN a = DOMAIN b
    /\ \A f \in ValueFields(a) : StructEq(a[f], b[f])
    /\ IsListed(a) =>
          LET la == a[ListField(a)]
              lb == b[ListField(a)]
          IN  /\ Len(la) = Len(lb)
              /\ \A i \in 1..Len(la) :
                    /\ DOMAIN la[i] = DOMAIN lb[i]
                    /\ \A g \in DOMAIN la[i] : StructEq(la[i][g], lb[i][g])

(***************************************************************************)
(* Buffers handed to the decoders that no encoder of this module wrote,    *)
(* put together from the heads decodeFirstItem reads                       *)
(***************************************************************************)
WireHead(majorType, n) ==
    IF n < 24 THEN <<majorType * 32 + n>> ELSE <<majorType * 32 + 24, n>>
WireBytes(b) == WireHead(2, Len(b)) \o b
WireText(u) == WireHead(3, Len(u)) \o u
WireArray(items) == WireHead(4, Len(items)) \o Flatten(items)
WireMap(pairs) == WireHead(5, Len(pairs)) \o Flatten([i \in 1..Len(pairs) |-> pairs[i][1] \o pairs[i][2]])
WireTag(t, item) == WireHead(6, t) \o item
WireNull == <<246>>

\* contents of the protected byte string: {1: -7}, {}, {1: 999}, the array
\* [0, -7], the integer 0, the text "ab", and no item at all
WireProtected ==
    {<<161, 1, 38>>, <<160>>, <<161, 1, 25, 3, 231>>, <<130, 0, 38>>, <<0>>, <<98, 97, 98>>, <<>>}

WireElement(p) == WireArray(<<WireBytes(p), <<160>>, WireBytes(<<9>>)>>)

\* bodies of another arity or with fields of another kind: five elements; the
\* integer 0 and the text "a" as payload; a list whose element has four
\* items, and two; a map with the keys 0 to 3 in the place of the array
WireMisshapen ==
    {WireArray(<<WireBytes(<<161, 1, 38>>), <<160>>, WireNull, WireBytes(<<1, 2, 3, 4>>), <<0>>>>),
     WireArray(<<WireBytes(<<161, 1, 38>>), <<160>>, <<0>>, WireBytes(<<1, 2, 3, 4>>)>>),
     WireArray(<<WireBytes(<<161, 1, 38>>), <<160>>, WireText(<<97>>), WireBytes(<<1, 2, 3, 4>>)>>),
     WireArray(<<WireBytes(<<161, 1, 38>>), <<160>>, WireBytes(<<1, 2>>),
                 WireArray(<<WireArray(<<WireBytes(<<161, 1, 38>>), <<160>>,
                                         WireBytes(<<9>>), <<0>>>>)>>)>>),
     WireArray(<<WireBytes(<<161, 1, 38>>), <<160>>, WireBytes(<<1, 2>>),
                 WireArray(<<WireArray(<<WireBytes(<<161, 1, 38>>), <<160>>>>)>>)>>),
     WireMap(<<<<<<0>>, WireBytes(<<161, 1, 38>>)>>, <<<<1>>, <<160>>>>,
               <<<<2>>, WireNull>>, <<<<3>>, WireBytes(<<1, 2, 3, 4>>)>>>>)}

\* the array of an envelope without a list, with payload, and with a list
WireBodies ==
    {WireArray(<<WireBytes(p), <<160>>, WireBytes(<<1, 2, 3, 4>>)>>) : p \in WireProtected}
      \cup {WireArray(<<WireBytes(p), <<160>>, WireNull, WireBytes(<<1, 2, 3, 4>>)>>) :
              p \in WireProtected}
      \cup {WireArray(<<WireBytes(<<161, 1, 38>>), <<160>>, WireBytes(<<1, 2>>),
                        WireArray(<<WireElement(p)>>)>>) : p \in WireProtected}
      \cup {WireArray(<<WireBytes(<<161, 1, 38>>), <<160>>, WireNull>>),
            WireArray(<<WireBytes(<<161, 1, 38>>), <<160>>, WireBytes(<<1, 2>>), WireNull>>),
            WireArray(<<WireBytes(<<161, 1, 38>>), <<160>>, WireBytes(<<1, 2>>),
                        WireArray(<<WireNull>>)>>),
            WireArray(<<<<161, 1, 38>>, <<160>>, WireNull, WireBytes(<<1, 2, 3, 4>>)>>)}
      \cup WireMisshapen

COSETags == {COSE_Encrypt, COSE_Encrypt0, COSE_Mac, COSE_Mac0, COSE_Sign, COSE_Sign1}
\* a tag number of no envelope
OtherTags == {19}

\* the Sign1 envelope of payload null whose protected byte string holds p
Sign1With(p) == WireTag(18, WireArray(<<WireBytes(p), <<160>>, WireNull, WireBytes(<<1, 2, 3, 4>>)>>))

\* the body under each tag, as the map {"tag": t, "value": body} of major
\* type 5, and bare; items that are no array; a cut buffer
Crafted ==
    {WireTag(t, b) : t \in COSETags \cup OtherTags, b \in WireBodies}
      \cup {WireMap(<<<<WireText(KeyTag), WireHead(0, t)>>, <<WireText(KeyValue), b>>>>) :
              t \in COSETags, b \in WireBodies}
      \cup WireBodies
      \cup {WireTag(t, x) : t \in COSETags, x \in {WireNull, <<0>>, <<160>>}}
      \cup {<<0>>, <<24, 18>>, WireNull, WireText(<<97>>), <<160>>, <<>>, <<216>>}
      \cup {Sign1With(<<161, 1, 38>> \o s) : s \in TrailingBytes}

(***************************************************************************)
(* A caller of the envelope codec: one encoder on an envelope, the same    *)
(* encoder on the envelope with its header maps built in another order,    *)
(* and any of the six decoders on the output or on a crafted buffer        *)
(***************************************************************************)
CoseIdle ==
    /\ env = None /\ envTwin = None /\ data = None /\ coseEnc = None
    /\ coseEncTwin = None /\ coseDec = None /\ decoder = "none" /\ cpc = "idle"

CoseInit ==
    /\ env \in Sign1s \cup Signs \cup Mac0s \cup Macs \cup Encrypt0s \cup Encrypts
    /\ envTwin = None /\ data = None /\ coseEnc = None
    /\ coseEncTwin = None /\ coseDec = None /\ decoder = "none" /\ cpc = "start"

CraftedInit ==
    /\ data \in Crafted
    /\ env = None /\ envTwin = None /\ coseEnc = None
    /\ coseEncTwin = None /\ coseDec = None /\ decoder = "none" /\ cpc = "crafted"

IsSign1(e) == DOMAIN e = {"protected", "unprotected", "payload", "signature"}
IsSign(e) == DOMAIN e = {"protected", "unprotected", "payload", "signatures"}
IsMac0(e) == DOMAIN e = {"protected", "unprotected", "payload", "tag"}
IsMac(e) == DOMAIN e = {"protected", "unprotected", "payload", "recipients"}
IsEncrypt0(e) == DOMAIN e = {"protected", "unprotected", "ciphertext"}
IsEncrypt(e) == DOMAIN e = {"protected", "unprotected", "ciphertext", "recipients"}

\* the encoder of the envelope's interface
encodeEnvelope(e) ==
    IF IsSign1(e) THEN encodeSign1(e)
    ELSE IF IsSign(e) THEN encodeSign(e)
    ELSE IF IsMac0(e) THEN encodeMac0(e)
    ELSE IF IsMac(e) THEN encodeMac(e)
    ELSE IF IsEncrypt0(e) THEN encodeEncrypt0(e)
    ELSE encodeEncrypt(e)

Encoded(result) ==
    /\ cpc = "start"
    /\ coseEnc' = result
    /\ data' = IF IsOk(result) THEN result[2] ELSE None
    /\ cpc' = "encoded"
    /\ UNCHANGED <<env, envTwin, coseEncTwin, coseDec, decoder>>
    /\ UNCHANGED <<cborVars, wireVars, keyVars, limitVars>>

EncodeSign1 == IsSign1(env) /\ Encoded(encodeSign1(env))
EncodeSign == IsSign(env) /\ Encoded(encodeSign(env))
EncodeMac0 == IsMac0(env) /\ Encoded(encodeMac0(env))
EncodeMac == IsMac(env) /\ Encoded(encodeMac(env))
EncodeEncrypt0 == IsEncrypt0(env) /\ Encoded(encodeEncrypt0(env))
EncodeEncrypt == IsEncrypt(env) /\ Encoded(encodeEncrypt(env))

EncodeEnvelopeTwin ==
    /\ cpc = "encoded"
    /\ \E k \in Orders :
          /\ envTwin' = RebuiltEnvelope(env, k)
          /\ coseEncTwin' = encodeEnvelope(envTwin')
    /\ cpc' = "twin"
    /\ UNCHANGED <<env, data, coseEnc, coseDec, decoder>>
    /\ UNCHANGED <<cborVars, wireVars, keyVars, limitVars>>

\* the caller puts other bytes after the bytes of the envelope
Follow ==
    /\ cpc = "encoded"
    /\ IsOk(coseEnc)
    /\ \E s \in TrailingBytes : data' = data \o s
    /\ cpc' = "followed"
    /\ UNCHANGED <<env, envTwin, coseEnc, coseEncTwin, coseDec, decoder>>
    /\ UNCHANGED <<cborVars, wireVars, keyVars, limitVars>>

Readable == cpc \in {"crafted", "followed"} \/ (cpc = "encoded" /\ IsOk(coseEnc))

Decoded(name, result) ==
    /\ Readable
    /\ coseDec' = result
    /\ decoder' = name
    /\ cpc' = "decoded"
    /\ UNCHANGED <<env, envTwin, data, coseEnc, coseEncTwin>>
    /\ UNCHANGED <<cborVars, wireVars, keyVars, limitVars>>

DecodeSign1 == Readable /\ Decoded("decodeSign1", decodeSign1(data))
DecodeSign == Readable /\ Decoded("decodeSign", decodeSign(data))
DecodeMac0 == Readable /\ Decoded("decodeMac0", decodeMac0(data))
DecodeMac == Readable /\ Decoded("decodeMac", decodeMac(data))
DecodeEncrypt0 == Readable /\ Decoded("decodeEncrypt0", decodeEncrypt0(data))
DecodeEncrypt == Readable /\ Decoded("decodeEncrypt", decodeEncrypt(data))

CoseNext ==
    \/ EncodeSign1 \/ EncodeSign \/ EncodeMac0 \/ EncodeMac \/ EncodeEncrypt0 \/ EncodeEncrypt
    \/ EncodeEnvelopeTwin \/ Follow
    \/ DecodeSign1 \/ DecodeSign \/ DecodeMac0 \/ DecodeMac \/ DecodeEncrypt0 \/ DecodeEncrypt

(***************************************************************************)
(* A caller that hands CBOR.decode a buffer it did not encode              *)
(* (cbor.ts:51-57): maps with keys of every kind and with repeated keys,   *)
(* alone and as the first element of an array; items and their beginnings, *)
(* read by decode and by decodeFirstItem from every offset; every initial  *)
(* byte.                                                                   *)
(***************************************************************************)
MaxPairs == 2

\* one item of every kind: 0, 24, -1, "a", "", h'01', [], {}, 1(0), the
\* floats 1.5 in 16, 32 and 64 bits, false, true, null, undefined
KeyItems ==
    {<<0>>, <<24, 24>>, <<32>>, <<97, 97>>, <<96>>, <<65, 1>>, <<128>>, <<160>>, <<193, 0>>,
     <<249, 62, 0>>, <<250, 63, 192, 0, 0>>, <<251, 63, 248, 0, 0, 0, 0, 0, 0>>,
     <<244>>, <<245>>, <<246>>, <<247>>}
ValueItems == {<<1>>, <<2>>, <<24, 24>>}
\* the keys and values of the maps with more than one pair
RepeatedKeys == {<<0>>, <<32>>, <<97, 97>>, <<24, 24>>, <<65, 1>>}
RepeatedValues == {<<1>>, <<2>>}

WiredMaps ==
    {WireMap(<<p>>) : p \in KeyItems \X ValueItems}
      \cup {WireMap(ps) : ps \in SeqsUpTo(RepeatedKeys \X RepeatedValues, MaxPairs)}

Wired == WiredMaps \cup {<<130>> \o m \o <<5>> : m \in WiredMaps}

\* one complete item of every major type and width of argument, and items
\* inside items: 256, 65536, 2^32, -256, h'0102', h'0102' with a one-byte
\* length, "ab", "a" with a one-byte length, [1, 2], [0] with a one-byte
\* count, [1, 256, "a"], {0: 1}, {"a": [1, 2]}, {1: h'0102', "b": [0, 0]},
\* 1(0), 24(h'00'), true, the floats 1.5 in 16, 32 and 64 bits, [1.5, 1] and
\* [1.5, 1, 2] with 1.5 in 16 bits
SampleItems ==
    {<<25, 1, 0>>, <<26, 0, 1, 0, 0>>, <<27, 0, 0, 0, 1, 0, 0, 0, 0>>, <<57, 0, 255>>,
     <<66, 1, 2>>, <<88, 2, 1, 2>>, <<98, 97, 98>>, <<120, 1, 97>>,
     <<130, 1, 2>>, <<152, 1, 0>>, <<131, 1, 25, 1, 0, 97, 97>>,
     <<161, 0, 1>>, <<161, 97, 97, 130, 1, 2>>, <<162, 1, 66, 1, 2, 97, 98, 130, 0, 0>>,
     <<193, 0>>, <<216, 24, 65, 0>>, <<245>>,
     <<249, 62, 0>>, <<250, 63, 192, 0, 0>>, <<251, 63, 248, 0, 0, 0, 0, 0, 0>>,
     <<130, 249, 62, 0, 1>>, <<131, 249, 62, 0, 1, 2>>}

\* every initial byte followed by 46 bytes 0, enough for the argument and
\* the content that any initial byte declares, at the top and as the only
\* element of an array; and every initial byte alone
Padded == {<<b>> \o Zeros(46) : b \in 0..255} \cup {<<129, b>> \o Zeros(46) : b \in 0..255}
Initials == Padded \cup {<<b>> : b \in 0..255}

\* the items and everything they begin with, each with every offset in it
Cuts == {SubSeq(c[1], 1, c[2]) : c \in {c \in SampleItems \X (0..10) : c[2] <= Len(c[1])}}
RawCalls == {c \in Cuts \X (0..10) : c[2] <= Len(c[1])} \cup (Initials \X {0})

WireIdle ==
    wire = None /\ wireDec = None /\ wpc = "idle" /\ wireStart = None /\ wireItem = None

WireInit ==
    /\ wire \in Wired
    /\ wireDec = None /\ wpc = "start" /\ wireStart = None /\ wireItem = None

RawInit ==
    /\ \E c \in RawCalls : wire = c[1] /\ wireStart = c[2]
    /\ wireDec = None /\ wpc = "raw" /\ wireItem = None

\* CBOR.decode(wire)
DecodeWire ==
    /\ wpc \in {"start", "raw"}
    /\ wireDec' = decode(wire)
    /\ wpc' = IF wpc = "start" THEN "decoded" ELSE "read"
    /\ UNCHANGED <<wire, wireStart, wireItem, cborVars, coseVars, keyVars, limitVars>>

\* the call decodeFirstItem(wire, wireStart) that decode and the decoders of
\* arrays, maps and tags make
DecodeFirstItem ==
    /\ wpc = "raw"
    /\ wireItem' = decodeFirstItem(wire, wireStart)
    /\ wpc' = "item"
    /\ UNCHANGED <<wire, wireDec, wireStart, cborVars, coseVars, keyVars, limitVars>>

(***************************************************************************)
(* The key codec (cose.ts:58-65, 219-272). A Map<number, ...> is the        *)
(* sequence of its entries <<key, value>> in insertion order.              *)
(***************************************************************************)
MapHas(map, k) == \E i \in 1..Len(map) : map[i][1] = k
MapGet(map, k) ==
    IF MapHas(map, k) THEN map[CHOOSE i \in 1..Len(map) : map[i][1] = k][2] ELSE Undefined
MapSet(map, k, v) ==
    IF MapHas(map, k)
    THEN [map EXCEPT ![CHOOSE i \in 1..Len(map) : map[i][1] = k] = <<k, v>>]
    ELSE Append(map, <<k, v>>)

\* new Map(entries)
RECURSIVE MapOf(_)
MapOf(entries) ==
    IF entries = <<>> THEN <<>>
    ELSE MapSet(MapOf(SubSeq(entries, 1, Len(entries) - 1)),
                entries[Len(entries)][1], entries[Len(entries)][2])

\* String(n), the property name Object.fromEntries gives the key n
KeyOfNumber(n) == IF n = NaN THEN <<78, 97, 78>> ELSE PropertyKey(n)

\* Object.fromEntries(map)
fromEntries(map) == Obj([i \in 1..Len(map) |-> <<KeyOfNumber(map[i][1]), map[i][2]>>])

KeyKty == NatNum(1)
KeyAlgorithm == NatNum(3)
IsNumber(v) == v[1] \in {"num", "float"}

\* a validation without the requirements on the parameters of each key type
validateCOSEKeyHead(map) ==
    IF ~IsNumber(MapGet(map, KeyKty))
    THEN Err("COSE_Key must contain 'kty' (1) as a number")
    ELSE IF ~IsNumber(MapGet(map, KeyAlgorithm)) \/ ~InCOSEAlgorithm(MapGet(map, KeyAlgorithm))
    THEN Err("COSE_Key must contain valid 'alg' (3)")
    ELSE Ok(Undefined)

validateCOSEKey(map) ==
    IF ~IsNumber(MapGet(map, KeyKty))
    THEN Err("COSE_Key must contain 'kty' (1) as a number")
    ELSE IF ~IsNumber(MapGet(map, KeyAlgorithm)) \/ ~InCOSEAlgorithm(MapGet(map, KeyAlgorithm))
    THEN Err("COSE_Key must contain valid 'alg' (3)")
    ELSE IF MapGet(map, KeyKty) = NatNum(2)
    THEN IF ~MapHas(map, IntNum(-1)) \/ ~MapHas(map, IntNum(-2)) \/ ~MapHas(map, IntNum(-3))
         THEN Err("EC2 key missing required parameters (crv, x, y)")
         ELSE Ok(Undefined)
    ELSE IF MapGet(map, KeyKty) = NatNum(3)
    THEN IF ~MapHas(map, IntNum(-1)) \/ ~MapHas(map, IntNum(-2))
         THEN Err("RSA key missing required parameters (n, e)")
         ELSE Ok(Undefined)
    ELSE Ok(Undefined)

\* the Map of encodeKey: Object.entries(key) with each name through Number
keyMapOf(k) == MapOf([i \in 1..Len(k[2]) |-> <<StringToNumber(k[2][i][1]), k[2][i][2]>>])

encodeKey(k) ==
    Bind(validateCOSEKey(keyMapOf(k)), LAMBDA valid : encode(fromEntries(keyMapOf(k))))

\* a property name that is the decimal text of an integer
IsDecimalInteger(k) ==
    /\ StringToNumber(k) # NaN
    /\ StringToNumber(k)[1] = "num"
    /\ NumberToString(StringToNumber(k)) = k

\* the key of a map entry as the typed mapping holds it
CoercedKey(k) == IF IsDecimalInteger(k) THEN StringToNumber(k) ELSE Text(k)

\* CBOR.decodeMapToMap(buffer, start, isKey, isValue): one item is decoded,
\* which must be a map; every key that is the text of a decimal integer
\* becomes that integer; the first entry that fails a predicate fails the
\* call; like every input buffer, buffer is at most 16 MiB long. A predicate
\* is given as the kinds of value it holds for.
decodeMapToMap(buffer, start, isKey, isValue) ==
    IF Len(buffer) > MAX_BUFFER_SIZE THEN Err("Buffer exceeds maximum size")
    ELSE
    Bind(decodeFirstItem(buffer, start),
         LAMBDA item :
             IF buffer[start + 1] \div 32 # 5 THEN Err("Expected a CBOR map")
             ELSE IF \E i \in 1..Len(item[1][2]) :
                        \/ CoercedKey(item[1][2][i][1])[1] \notin isKey
                        \/ item[1][2][i][2][1] \notin isValue
             THEN Err("Invalid map entry")
             ELSE Ok(<<MapOf([i \in 1..Len(item[1][2]) |->
                                <<CoercedKey(item[1][2][i][1]), item[1][2][i][2]>>]),
                       item[2] - start>>))

\* typeof key === "number", and
\* typeof value === "number" || value instanceof ArrayBuffer
Numbers == {"num", "float"}
NumbersAndArrayBuffers == {"num", "float", "bytes"}

decodeKey(buffer) ==
    Bind(decodeMapToMap(buffer, 0, Numbers, NumbersAndArrayBuffers),
         LAMBDA r : Bind(validateCOSEKey(r[1]), LAMBDA valid : Ok(r[1])))

(***************************************************************************)
(* The keys handed to the key codec: entry 1 absent, 1 to 4 or the text    *)
(* "2"; entry 3 absent, of the registry, out of it or a text; every        *)
(* subset of the parameters -1, -2, -3; at most one other entry.           *)
(***************************************************************************)
Absent == <<"absent">>
KtySamples == {Absent, NatNum(1), NatNum(2), NatNum(3), NatNum(4), Text(<<50>>)}
KeyAlgSamples == {Absent, IntNum(-7), NatNum(5), NatNum(999), Text(<<45, 55>>)}
Coordinate == Bytes(<<1, 2>>)
Entry(n, v) == IF v[1] = "absent" THEN <<>> ELSE <<<<Key(n), v>>>>

\* the EC key with the curve 1 and one more entry, 4 or -4; the RSA key
\* with the entry -3; the EC key with the curve 2
ExtraKeys ==
    {Obj(Entry(1, NatNum(2)) \o Entry(3, IntNum(-7)) \o Entry(-1, NatNum(1))
           \o Entry(-2, Coordinate) \o Entry(-3, Coordinate) \o Entry(n, Coordinate)) :
        n \in {4, -4}}
      \cup {Obj(Entry(1, NatNum(3)) \o Entry(3, IntNum(-7)) \o Entry(-1, Coordinate)
                 \o Entry(-2, Coordinate) \o Entry(-3, Coordinate)),
            Obj(Entry(1, NatNum(2)) \o Entry(3, IntNum(-7)) \o Entry(-1, NatNum(2))
                 \o Entry(-2, Coordinate) \o Entry(-3, Coordinate))}

COSEKeys ==
    {Obj(Entry(1, kty) \o Entry(3, alg) \o Entry(-1, crv) \o Entry(-2, x) \o Entry(-3, y)) :
        kty \in KtySamples, alg \in KeyAlgSamples, crv \in {Absent, NatNum(1), Coordinate},
        x \in {Absent, Coordinate}, y \in {Absent, Coordinate}}
      \cup ExtraKeys

\* buffers from elsewhere: every such key as CBOR.encode writes it, the same
\* inside tag 1, an array, an integer, a map with the key "a", an EC key
\* with a text for x, a map cut short, and no bytes at all
KeyBuffers ==
    {encode(k)[2] : k \in COSEKeys}
      \cup {<<193>> \o encode(k)[2] : k \in COSEKeys}
      \cup {<<128>>, <<1>>, <<>>, <<161, 1>>,
            <<163, 1, 2, 3, 38, 97, 97, 1>>,
            <<165, 1, 2, 3, 38, 32, 1, 33, 97, 97, 34, 66, 1, 2>>}

KeyIdle ==
    /\ coseKey = None /\ keyEnc = None /\ keyData = None /\ keyDec = None /\ kpc = "idle"

KeyInit ==
    /\ coseKey \in COSEKeys
    /\ keyEnc = None /\ keyData = None /\ keyDec = None /\ kpc = "start"

KeyBufferInit ==
    /\ keyData \in KeyBuffers
    /\ coseKey = None /\ keyEnc = None /\ keyDec = None /\ kpc = "crafted"

EncodeKey ==
    /\ kpc = "start"
    /\ keyEnc' = encodeKey(coseKey)
    /\ keyData' = IF IsOk(keyEnc') THEN keyEnc'[2] ELSE None
    /\ kpc' = "encoded"
    /\ UNCHANGED <<coseKey, keyDec>>
    /\ UNCHANGED <<cborVars, coseVars, wireVars, limitVars>>

DecodeKey ==
    /\ kpc = "crafted" \/ (kpc = "encoded" /\ IsOk(keyEnc))
    /\ keyDec' = decodeKey(keyData)
    /\ kpc' = "decoded"
    /\ UNCHANGED <<coseKey, keyEnc, keyData>>
    /\ UNCHANGED <<cborVars, coseVars, wireVars, limitVars>>

KeyNext == EncodeKey \/ DecodeKey

LimitIdle == call = None /\ outcome = None /\ lpc = "idle"

Init ==
    \/ CborInit /\ CoseIdle /\ WireIdle /\ KeyIdle /\ LimitIdle
    \/ CborIdle /\ (CoseInit \/ CraftedInit) /\ WireIdle /\ KeyIdle /\ LimitIdle
    \/ CborIdle /\ CoseIdle /\ (WireInit \/ RawInit) /\ KeyIdle /\ LimitIdle
    \/ CborIdle /\ CoseIdle /\ WireIdle /\ (KeyInit \/ KeyBufferInit) /\ LimitIdle

Next == CborNext \/ CoseNext \/ DecodeWire \/ DecodeFirstItem \/ KeyNext

Spec == Init /\ [][Next]_vars

(***************************************************************************)
(* Properties of the byte codec                                            *)
(***************************************************************************)
\* the values the byte codec is specified on: integers in the safe range,
\* text, bytes, booleans, null, undefined, arrays and maps of them
RECURSIVE Supported(_)
Supported(v) ==
    IF v[1] = "num" THEN MagLE(MagOf(v), MAX_SAFE_INTEGER)
    ELSE IF v[1] = "array" THEN \A i \in 1..Len(v[2]) : Supported(v[2][i])
    ELSE IF v[1] = "object" THEN \A i \in 1..Len(v[2]) : Supported(v[2][i][2])
    ELSE v[1] \in {"text", "bytes", "bool", "null", "undefined"}

EncodeDone == pc \in {"encoded", "twin", "decoded", "done"}
DecodeDone == pc \in {"decoded", "done"}

\* C1: every supported value encodes, and decoding the output gives a value
\* structurally equal to it, every map key with its value.
C1_RoundTrip ==
    (EncodeDone /\ Supported(value)) =>
        /\ IsOk(encoded)
        /\ DecodeDone => (IsOk(decoded) /\ StructEq(decoded[2], value))

\* C3: two inputs with the same keys and values at every level, their maps
\* built in different insertion orders, give the same output, from
\* CBOR.encode and from each of the six envelope encoders.
C3_Deterministic ==
    /\ pc = "twin" => encodedTwin = encoded
    /\ cpc = "twin" => coseEncTwin = coseEnc

\* a map of three properties was built in another order and encoded
C3_Witness ==
    /\ pc = "twin"
    /\ value[1] = "object"
    /\ twin # value
    /\ IsOk(encodedTwin)

\* C4: encoding what was decoded from the encoding of a supported value
\* gives the bytes of the first encoding.
C4_Idempotent ==
    (pc = "done" /\ Supported(value)) => reencoded = encoded

\* C10: every integer n with -(2^53-1) <= n <= 2^53-1 encodes, and decoding
\* the output gives n exactly.
C10_IntegerRoundTrip ==
    (EncodeDone /\ IsNum(value) /\ MagLE(MagOf(value), MAX_SAFE_INTEGER)) =>
        /\ IsOk(encoded)
        /\ DecodeDone => decoded = Ok(value)

\* -(2^53-1), the lowest integer of the range, came back from the decoder
C10_Witness ==
    /\ pc = "decoded"
    /\ value = Num(TRUE, MAX_SAFE_INTEGER)
    /\ decoded = Ok(value)

(***************************************************************************)
(* Properties of the envelope codec                                        *)
(***************************************************************************)
\* the registry of algorithm identifiers
RegistryIntegers ==
    {-7, -35, -36, -8, -257, -258, -259, -37, -38, -39, 4, 5, 6, 7,
     1, 2, 3, 24, 10, 12, 13, 14, 30, 31, 32, 33, -6}
RegistryValues == {IntNum(n) : n \in RegistryIntegers}

\* the protected headers of an envelope: the outer one, then the elements'
Headers(e) ==
    <<e.protected>> \o
        (IF IsListed(e)
         THEN [i \in 1..Len(e[ListField(e)]) |-> e[ListField(e)][i].protected]
         ELSE <<>>)
Unprotecteds(e) ==
    <<e.unprotected>> \o
        (IF IsListed(e)
         THEN [i \in 1..Len(e[ListField(e)]) |-> e[ListField(e)][i].unprotected]
         ELSE <<>>)

HasAlg(h) == h[1] = "object" /\ \E i \in 1..Len(h[2]) : h[2][i][1] = <<49>>
AlgOf(h) == h[2][CHOOSE i \in 1..Len(h[2]) : h[2][i][1] = <<49>>][2]
RegistryMap(h) == HasAlg(h) /\ AlgOf(h) \in RegistryValues
GoodHeader(h) == RegistryMap(h) /\ Supported(h)
LacksAlg(e) == \E i \in 1..Len(Headers(e)) : ~HasAlg(Headers(e)[i])
\* the place of the first protected header without key 1
FirstLacking(e) ==
    IF ~LacksAlg(e) THEN Len(Headers(e)) + 1
    ELSE CHOOSE i \in 1..Len(Headers(e)) :
            ~HasAlg(Headers(e)[i]) /\ \A j \in 1..(i - 1) : HasAlg(Headers(e)[j])

WellFormed(e) ==
    /\ \A i \in 1..Len(Headers(e)) : GoodHeader(Headers(e)[i])
    /\ \A i \in 1..Len(Unprotecteds(e)) : Supported(Unprotecteds(e)[i])

\* an encoder was called on env
EnvelopeEncoded == cpc \in {"encoded", "twin"} \/ (cpc = "decoded" /\ IsOk(coseEnc))

MatchingDecoder(e) ==
    IF IsSign1(e) THEN "decodeSign1"
    ELSE IF IsSign(e) THEN "decodeSign"
    ELSE IF IsMac0(e) THEN "decodeMac0"
    ELSE IF IsMac(e) THEN "decodeMac"
    ELSE IF IsEncrypt0(e) THEN "decodeEncrypt0"
    ELSE "decodeEncrypt"

\* C2: for every well-formed envelope V of the six kinds, encodeX(V) succeeds
\* and decodeX of the output is structurally equal to V, lists in order.
C2_EnvelopeRoundTrip ==
    (EnvelopeEncoded /\ WellFormed(env)) =>
        /\ IsOk(coseEnc)
        /\ (cpc = "decoded" /\ decoder = MatchingDecoder(env)) =>
              (IsOk(coseDec) /\ EnvelopeEq(coseDec[2], env))

\* C5 as stated: an envelope with a protected header without key 1, outer or
\* of an element, makes the encoder fail with the missing-alg message.
C5_MissingAlgMessage ==
    (EnvelopeEncoded /\ LacksAlg(env)) => coseEnc = Err(MissingAlg)

\* C5 amended: such an envelope makes the encoder fail; the message is the
\* missing-alg one when every protected header before the first without key
\* 1, the outer one first and then the elements in order, has a registry
\* algorithm and values the byte codec encodes.
C5_MissingAlgRefused ==
    (EnvelopeEncoded /\ LacksAlg(env)) =>
        /\ IsErr(coseEnc)
        /\ (\A j \in 1..(FirstLacking(env) - 1) : GoodHeader(Headers(env)[j])) =>
              coseEnc = Err(MissingAlg)

\* the second signature of a COSE_Sign is the first header without key 1
C5_Witness ==
    /\ cpc = "encoded"
    /\ IsSign(env)
    /\ Len(env.signatures) = 2
    /\ FirstLacking(env) = 3
    /\ coseEnc = Err(MissingAlg)

\* C6: a protected header with key 1 passes validateProtectedHeader exactly
\* when the value under key 1 is one of the 27 registry integers; with any
\* other value the validation, and the encoder that runs it, fails with
\* the unsupported-algorithm message.
C6_Registry ==
    (EnvelopeEncoded /\ HasAlg(env.protected)) =>
        /\ IsOk(validateProtectedHeader(env.protected))
              <=> AlgOf(env.protected) \in RegistryValues
        /\ AlgOf(env.protected) \notin RegistryValues =>
              /\ validateProtectedHeader(env.protected) = Err(UnsupportedAlg)
              /\ coseEnc = Err(UnsupportedAlg)

\* encodeSign1 refused the protected header {1: 999}
C6_Witness ==
    /\ cpc = "encoded"
    /\ IsSign1(env)
    /\ env.protected = Header(NatNum(999))
    /\ coseEnc = Err(UnsupportedAlg)

\* the tag number of the top-level item of a buffer, -1 if the item is not
\* of major type 6; the buffers of this module carry tags below 256
TopTag(b) ==
    IF b = <<>> \/ b[1] \div 32 # 6 THEN -1
    ELSE IF b[1] % 32 < 24 THEN b[1] % 32
    ELSE IF b[1] % 32 = 24 /\ Len(b) >= 2 THEN b[2]
    ELSE -1

TagOfDecoder(name) ==
    IF name = "decodeSign1" THEN 18
    ELSE IF name = "decodeSign" THEN 98
    ELSE IF name = "decodeMac0" THEN 17
    ELSE IF name = "decodeMac" THEN 97
    ELSE IF name = "decodeEncrypt0" THEN 16
    ELSE 96

\* C7: decodeX fails on every buffer whose top-level item is not a tagged
\* item with the tag number of X.
C7_TagDiscrimination ==
    (cpc = "decoded" /\ TopTag(data) # TagOfDecoder(decoder)) => IsErr(coseDec)

\* C8: in whatever a decoder returns, the outer protected header and that of
\* every element is a map with key 1 and a registry algorithm under it; bytes
\* of a protected header that decode to anything else make the decoder fail.
C8_ProtectedValidated ==
    (cpc = "decoded" /\ IsOk(coseDec)) =>
        \A i \in 1..Len(Headers(coseDec[2])) : RegistryMap(Headers(coseDec[2])[i])

\* the bytes of the wire shape, put together from the heads of the items
WireOfBytes(v) == IF v[1] = "null" THEN WireNull ELSE WireBytes(v[2])
WireOfMap(h) == encode(h)[2]
WireOfProtected(h) == WireBytes(encode(h)[2])
WireOfElement(el, terminal) ==
    WireArray(<<WireOfProtected(el.protected), WireOfMap(el.unprotected),
                WireOfBytes(el[terminal])>>)
WireOfList(list, terminal) ==
    WireArray([i \in 1..Len(list) |-> WireOfElement(list[i], terminal)])
WireOfFields(e) ==
    IF IsSign1(e) THEN <<WireOfBytes(e.payload), WireOfBytes(e.signature)>>
    ELSE IF IsSign(e) THEN <<WireOfBytes(e.payload), WireOfList(e.signatures, "signature")>>
    ELSE IF IsMac0(e) THEN <<WireOfBytes(e.payload), WireOfBytes(e.tag)>>
    ELSE IF IsMac(e) THEN <<WireOfBytes(e.payload), WireOfList(e.recipients, "tag")>>
    ELSE IF IsEncrypt0(e) THEN <<WireOfBytes(e.ciphertext)>>
    ELSE <<WireOfBytes(e.ciphertext), WireOfList(e.recipients, "encrypted_key")>>
WireOfEnvelope(e) ==
    WireTag(TagOfDecoder(MatchingDecoder(e)),
            WireArray(<<WireOfProtected(e.protected), WireOfMap(e.unprotected)>>
                        \o WireOfFields(e)))

Sign1Example ==
    [protected |-> Header(IntNum(-7)), unprotected |-> HeaderEmpty,
     payload |-> Null, signature |-> Bytes(<<1, 2, 3, 4>>)]
Sign1ExampleBytes == <<210, 132, 67, 161, 1, 38, 160, 246, 68, 1, 2, 3, 4>>

\* C9: the output of encodeX is the tag of X on an array of the protected
\* header as a byte string holding its encoding, the unprotected header as a
\* map, and the other fields in their order, every element of a list
\* an array of the same three parts; the Sign1 of the example gives
\* D2 84 43 A1 01 26 A0 F6 44 01 02 03 04.
C9_WireShape ==
    (EnvelopeEncoded /\ IsOk(coseEnc)) =>
        /\ coseEnc[2] = WireOfEnvelope(env)
        /\ WireOfMap(env.unprotected)[1] \div 32 = 5
        /\ env = Sign1Example => coseEnc[2] = Sign1ExampleBytes

\* encodeSign1 wrote the bytes of the example
C9_Witness ==
    /\ cpc = "encoded"
    /\ IsSign1(env)
    /\ env = Sign1Example
    /\ coseEnc = Ok(Sign1ExampleBytes)

(***************************************************************************)
(* Integers and map keys on the wire                                       *)
(***************************************************************************)
\* the initial byte and argument of an integer in the form its size calls
\* for, by the number of bytes of the argument without leading zeros
ShortestForm(base, arg) ==
    IF Len(arg) = 0 THEN <<base>>
    ELSE IF Len(arg) = 1 /\ arg[1] < 24 THEN <<base + arg[1]>>
    ELSE IF Len(arg) = 1 THEN <<base + 24>> \o arg
    ELSE IF Len(arg) = 2 THEN <<base + 25>> \o arg
    ELSE IF Len(arg) <= 4 THEN <<base + 26>> \o Zeros(4 - Len(arg)) \o arg
    ELSE <<base + 27>> \o Zeros(8 - Len(arg)) \o arg

SafeInteger(v) == IsNum(v) /\ MagLE(MagOf(v), MAX_SAFE_INTEGER)

\* C15: a non-negative integer is written in the shortest of the five forms
\* that holds it, a negative integer v the same way under major type 1 with
\* the argument |v| - 1; encode(0) = 00 and encode(-1) = 20.
C15_ShortestForm ==
    (EncodeDone /\ SafeInteger(value)) =>
        /\ encoded = Ok(IF IsNeg(value) THEN ShortestForm(32, MagDec(MagOf(value)))
                        ELSE ShortestForm(0, MagOf(value)))
        /\ value = NatNum(0) => encoded = Ok(<<0>>)
        /\ value = IntNum(-1) => encoded = Ok(<<32>>)

\* 65536, the first integer of the 4-byte form, was encoded
C15_Witness ==
    /\ pc = "encoded"
    /\ value = Num(FALSE, <<1, 0, 0>>)
    /\ encoded = Ok(<<26, 0, 1, 0, 0>>)

\* C16: CBOR.encode fails for every integer below -(2^53-1) or above 2^53-1.
C16_SafeIntegerRefusal ==
    (EncodeDone /\ IsNum(value) /\ ~MagLE(MagOf(value), MAX_SAFE_INTEGER)) =>
        IsErr(encoded)

\* the entries in ascending order of the text of their keys, each at the
\* place the number of smaller keys gives it
SortedByText(props) ==
    [k \in 1..Len(props) |->
        props[CHOOSE i \in 1..Len(props) :
                 Cardinality({j \in 1..Len(props) : SeqLess(props[j][1], props[i][1])}) = k - 1]]

\* the bytes of a map item of the entries in the order given
WireOfEntries(entries) ==
    WireHead(5, Len(entries))
      \o Flatten([i \in 1..Len(entries) |->
                    encodeMapKey(entries[i][1], StringToNumber(entries[i][1]))[2]
                      \o encodeValue(entries[i][2])[2]])

IsMapValue(v) == v[1] = "object" /\ ~IsTagged(v)

\* C17: the entries of a map are written in ascending order of the text of
\* their keys, key 10 before key 2 and key -1 before key 1, whatever the
\* insertion order.
C17_KeyOrder ==
    /\ (EncodeDone /\ IsMapValue(value) /\ IsOk(encoded)) =>
          /\ encoded[2] = WireOfEntries(SortedByText(value[2]))
          /\ value = Obj(<<<<<<50>>, NatNum(1)>>, <<<<49, 48>>, NatNum(1)>>>>) =>
                encoded[2] = <<162, 10, 1, 2, 1>>
    /\ (pc = "twin" /\ IsMapValue(value) /\ IsOk(encodedTwin)) =>
          encodedTwin[2] = WireOfEntries(SortedByText(value[2]))

\* the map {2: 1, 10: 1} was encoded with key 10 first
C17_Witness ==
    /\ pc = "encoded"
    /\ value = Obj(<<<<<<50>>, NatNum(1)>>, <<<<49, 48>>, NatNum(1)>>>>)
    /\ encoded = Ok(<<162, 10, 1, 2, 1>>)

\* the bytes of the keys of the n pairs that start at offset, in order
\* (none past an item that cannot be read)
RECURSIVE KeySlices(_, _, _)
KeySlices(buffer, offset, n) ==
    IF n = 0 THEN <<>>
    ELSE Let(decodeFirstItem(buffer, offset),
             LAMBDA k :
                 IF IsErr(k) THEN <<>>
                 ELSE Let(decodeFirstItem(buffer, k[2][2]),
                          LAMBDA v :
                              <<Slice(buffer, offset, k[2][2])>>
                                \o (IF IsErr(v) THEN <<>>
                                    ELSE KeySlices(buffer, v[2][2], n - 1))))

\* C18: no two entries of an emitted map item have the same encoded key.
C18_NoDuplicateKeys ==
    (EncodeDone /\ IsMapValue(value) /\ IsOk(encoded)) =>
        Injective(KeySlices(encoded[2], 1, Len(value[2])))

(***************************************************************************)
(* Maps read from the wire                                                 *)
(***************************************************************************)
\* where the map of a wired buffer starts (0, or 1 inside the array), and
\* the number of pairs its head declares
MapAt(w) == IF w[1] = 130 THEN 1 ELSE 0
PairsOf(w) == w[MapAt(w) + 1] - 160

\* the major type of an item, from its initial byte
MajorOf(item) == item[1] \div 32

\* the wired map from its first key on
FirstKey(w) == SubSeq(w, MapAt(w) + 2, Len(w))

\* the keys of the wired map, in order, as the bytes of their items
WiredKeys(w) == KeySlices(w, MapAt(w) + 1, PairsOf(w))

\* C19: a map key that is not an unsigned integer, a negative integer or a
\* text string makes decode fail with the invalid-map-key-type error.
C19_KeyTypeRestriction ==
    (wpc = "decoded" /\ PairsOf(wire) >= 1 /\ MajorOf(FirstKey(wire)) \notin {0, 1, 3}) =>
        wireDec = Err("CBOR map keys must be strings or numbers")

\* the values of the wired map, in order, as the bytes of their items
RECURSIVE ValueSlices(_, _, _)
ValueSlices(buffer, offset, n) ==
    IF n = 0 THEN <<>>
    ELSE Let(decodeFirstItem(buffer, offset)[2][2],
             LAMBDA afterKey :
                 Let(decodeFirstItem(buffer, afterKey)[2][2],
                     LAMBDA afterValue :
                         <<Slice(buffer, afterKey, afterValue)>>
                           \o ValueSlices(buffer, afterValue, n - 1)))
WiredValues(w) == ValueSlices(w, MapAt(w) + 1, PairsOf(w))

ScalarKeys(w) ==
    /\ Len(WiredKeys(w)) = PairsOf(w)
    /\ \A i \in 1..PairsOf(w) : MajorOf(WiredKeys(w)[i]) \in {0, 1, 3}
Repeats(w) == ~Injective(WiredKeys(w))

\* the last pair of the wired map with the key of pair i
LastOf(w, i) ==
    CHOOSE j \in i..PairsOf(w) :
        /\ WiredKeys(w)[j] = WiredKeys(w)[i]
        /\ \A k \in (j + 1)..PairsOf(w) : WiredKeys(w)[k] # WiredKeys(w)[i]

\* the map decode returned for the wired map
MapRead(w, result) == IF MapAt(w) = 0 THEN result[2] ELSE result[2][2][1]

KeyEncoded == kpc = "encoded" \/ (kpc = "decoded" /\ coseKey # None)
KeyDecoded == kpc = "decoded"

\* the map a key buffer holds, as CBOR.decode reads it
HeldKey(buffer) == decode(buffer)[2]
HoldsMap(buffer) == buffer # <<>> /\ buffer[1] \div 32 = 5 /\ IsOk(decode(buffer))

\* entry n of a key
EntryOf(k, n) == Get(k, Key(n))[2]
IsInteger(v) == v[1] = "num"

\* C13: a key whose entry 1 is an integer other than 2 and 3 is rejected by
\* encodeKey and by decodeKey, whatever its other entries.
C13_KeyTypeRestriction ==
    /\ (KeyEncoded /\ IsInteger(EntryOf(coseKey, 1))
          /\ EntryOf(coseKey, 1) \notin {NatNum(2), NatNum(3)}) => IsErr(keyEnc)
    /\ (KeyDecoded /\ HoldsMap(keyData) /\ IsInteger(EntryOf(HeldKey(keyData), 1))
          /\ EntryOf(HeldKey(keyData), 1) \notin {NatNum(2), NatNum(3)}) => IsErr(keyDec)

\* the shape of a key: entry 1 a number, entry 3 an integer of the registry,
\* and the parameters its key type requires
Shaped(k) ==
    /\ IsNumber(EntryOf(k, 1))
    /\ EntryOf(k, 3) \in RegistryValues
    /\ EntryOf(k, 1) = NatNum(2) => \A n \in {-1, -2, -3} : Has(k[2], Key(n))
    /\ EntryOf(k, 1) = NatNum(3) => \A n \in {-1, -2} : Has(k[2], Key(n))

\* C14: encodeKey and decodeKey fail for a key that lacks entry 1 as a
\* number, entry 3 as an integer of the registry, or a parameter its key type
\* requires (-1, -2, -3 for kty 2; -1, -2 for kty 3); encodeKey returns bytes
\* only for a key of that shape.
C14_KeyShape ==
    /\ (KeyEncoded /\ ~Shaped(coseKey)) => IsErr(keyEnc)
    /\ (KeyEncoded /\ IsOk(keyEnc)) => Shaped(coseKey)
    /\ (KeyDecoded /\ HoldsMap(keyData) /\ ~Shaped(HeldKey(keyData))) => IsErr(keyDec)

\* an EC key without y was refused by encodeKey
C14_Witness ==
    /\ kpc = "encoded"
    /\ coseKey = Obj(Entry(1, NatNum(2)) \o Entry(3, IntNum(-7))
                       \o Entry(-1, NatNum(1)) \o Entry(-2, Coordinate))
    /\ keyEnc = Err("EC2 key missing required parameters (crv, x, y)")

(***************************************************************************)
(* Calls at the size limits (cbor.ts:42, 52, 69, 221, 242, 465, 482). A     *)
(* call is <<entry point, shape of the argument, size>>; the caller keeps  *)
(* of the result its error or, of a value, the kind, the size and the      *)
(* depth at which its container lies.                                      *)
(***************************************************************************)
MaxOver == 1

\* n items 0, and n entries with the keys 10001, 10002, ... and the value 0
Counted(n) == [i \in 1..n |-> NatNum(0)]
Numbered(n) == [i \in 1..n |-> <<NumberToString(NatNum(MAX_ITEMS + i)), NatNum(0)>>]

\* the initial byte and the argument of an item of the size n
HeadOf(majorType, n) == ShortestForm(majorType * 32, MagOfNat(n))
HeadLen(n) == IF n < 24 THEN 1 ELSE IF n < 256 THEN 2 ELSE IF n < 65536 THEN 3 ELSE 5

Sign1Of(n) ==
    [protected |-> Header(IntNum(-7)), unprotected |-> HeaderEmpty,
     payload |-> Bytes(Zeros(n)), signature |-> Terminal]
KeyOf(n) ==
    Obj(Entry(1, NatNum(2)) \o Entry(3, IntNum(-7)) \o Entry(-1, NatNum(1))
          \o Entry(-2, Bytes(Zeros(n))) \o Entry(-3, Coordinate))
\* the EC key {1: 2, 3: -7, -1: 1, -2: h'0102', -3: h'0102'} as bytes
KeyExampleBytes == <<165, 32, 1, 33, 66, 1, 2, 34, 66, 1, 2, 1, 2, 3, 38>>

\* the value handed to an encoder
ValueOf(shape, n) ==
    IF shape = "bytes" THEN Bytes(Zeros(n))
    ELSE IF shape = "array" THEN Array(Counted(n))
    ELSE IF shape = "array in array" THEN Array(<<Array(Counted(n))>>)
    ELSE IF shape = "map" THEN <<"object", Numbered(n)>>
    ELSE Array(<<<<"object", Numbered(n)>>>>)

\* the buffer handed to a decoder: a byte string of n bytes, an item followed
\* by other bytes up to n in all, n bytes that start with no item, an array
\* of n items, a map of n pairs with one key, the head of either without what
\* it declares, and the array or map as the only element of an array
BufferOf(shape, n) ==
    IF shape = "bytes" THEN HeadOf(2, n) \o Zeros(n)
    ELSE IF shape = "followed" THEN <<0>> \o Zeros(n - 1)
    ELSE IF shape = "unreadable" THEN <<255>> \o Zeros(n - 1)
    ELSE IF shape = "sign1" THEN Sign1ExampleBytes \o Zeros(n - Len(Sign1ExampleBytes))
    ELSE IF shape = "key" THEN KeyExampleBytes \o Zeros(n - Len(KeyExampleBytes))
    ELSE IF shape = "array" THEN HeadOf(4, n) \o Zeros(n)
    ELSE IF shape = "array head" THEN HeadOf(4, n)
    ELSE IF shape = "array in array" THEN <<129>> \o HeadOf(4, n) \o Zeros(n)
    ELSE IF shape = "map" THEN HeadOf(5, n) \o Zeros(2 * n)
    ELSE IF shape = "map head" THEN HeadOf(5, n)
    ELSE <<129>> \o HeadOf(5, n) \o Zeros(2 * n)

\* kind, size and depth of a value
RECURSIVE ShapeOf(_)
ShapeOf(v) ==
    IF v[1] = "array" /\ Len(v[2]) = 1 /\ v[2][1][1] \in {"array", "object"}
    THEN <<ShapeOf(v[2][1])[1], ShapeOf(v[2][1])[2], ShapeOf(v[2][1])[3] + 1>>
    ELSE IF v[1] \in {"array", "object", "bytes", "text"} THEN <<v[1], Len(v[2]), 0>>
    ELSE <<v[1], 0, 0>>

SeenBytes(result) == Bind(result, LAMBDA bytes : Ok(<<"bytes", Len(bytes), 0>>))
SeenValue(result) == Bind(result, LAMBDA v : Ok(ShapeOf(v)))
SeenSign1(result) == Bind(result, LAMBDA e : Ok(<<"sign1", ShapeOf(e.payload)[2], 0>>))
SeenKey(result) == Bind(result, LAMBDA map : Ok(<<"key", Len(map), 0>>))

Counts == {0, 1, MAX_ITEMS - 1, 65536} \cup (MAX_ITEMS..(MAX_ITEMS + MaxOver))
Containers == {"array", "array in array", "map", "map in array"}
\* sizes of byte strings whose item is 16 MiB long, one byte less, one more
Contents == {MAX_BUFFER_SIZE - 6, MAX_BUFFER_SIZE - 5, MAX_BUFFER_SIZE - 4}

Calls ==
    ({"encode", "decode"} \X Containers \X Counts)
      \cup ({"decode"} \X {"array head", "map head"} \X Counts)
      \cup ({"encode", "decode"} \X {"bytes"} \X ({0, 23, 24, 255, 256, 65535, 65536} \cup Contents))
      \cup ({"decode"} \X {"followed", "unreadable"}
              \X {1, 2, MAX_BUFFER_SIZE, MAX_BUFFER_SIZE + 1})
      \cup ({"encodeSign1", "encodeKey"} \X {"bytes"}
              \X {0, 24, MAX_BUFFER_SIZE - 17, MAX_BUFFER_SIZE - 16})
      \cup ({"decodeSign1"} \X {"sign1"} \X {13, 14, MAX_BUFFER_SIZE, MAX_BUFFER_SIZE + 1})
      \cup ({"decodeKey"} \X {"key"} \X {15, 16, MAX_BUFFER_SIZE, MAX_BUFFER_SIZE + 1})

LimitInit ==
    /\ CborIdle /\ CoseIdle /\ WireIdle /\ KeyIdle
    /\ call \in Calls
    /\ outcome = None /\ lpc = "start"

Called(entry, result) ==
    /\ lpc = "start"
    /\ call[1] = entry
    /\ outcome' = result
    /\ lpc' = "done"
    /\ UNCHANGED <<call, cborVars, coseVars, wireVars, keyVars>>

CallEncode == Called("encode", SeenBytes(encode(ValueOf(call[2], call[3]))))
CallDecode == Called("decode", SeenValue(decode(BufferOf(call[2], call[3]))))
CallEncodeSign1 == Called("encodeSign1", SeenBytes(encodeSign1(Sign1Of(call[3]))))
CallDecodeSign1 == Called("decodeSign1", SeenSign1(decodeSign1(BufferOf(call[2], call[3]))))
CallEncodeKey == Called("encodeKey", SeenBytes(encodeKey(KeyOf(call[3]))))
CallDecodeKey == Called("decodeKey", SeenKey(decodeKey(BufferOf(call[2], call[3]))))

LimitNext ==
    \/ CallEncode \/ CallDecode
    \/ CallEncodeSign1 \/ CallDecodeSign1
    \/ CallEncodeKey \/ CallDecodeKey

SpecLimits == LimitInit /\ [][LimitNext]_vars

(***************************************************************************)
(* Properties at the size limits                                           *)
(***************************************************************************)
Encoders == {"encode", "encodeSign1", "encodeKey"}
Decoders == {"decode", "decodeSign1", "decodeKey"}

\* the length of the buffer a decoder was given
Given(c) ==
    IF c[2] = "bytes" THEN HeadLen(c[3]) + c[3]
    ELSE IF c[2] \in {"array", "array in array"} THEN HeadLen(c[3]) + c[3] + 1
    ELSE IF c[2] \in {"map", "map in array"} THEN HeadLen(c[3]) + 2 * c[3] + 1
    ELSE IF c[2] \in {"array head", "map head"} THEN HeadLen(c[3])
    ELSE c[3]

\* the length of the encoding of a byte string of c[3] bytes: alone, as the
\* payload of the Sign1 envelope, as the parameter -2 of the EC key
Written(c) == IF c[1] = "encode" THEN HeadLen(c[3]) + c[3] ELSE 12 + HeadLen(c[3]) + c[3]

\* C11: decode, decodeSign1 and decodeKey fail with the size error on a
\* buffer longer than 16 MiB, whatever its bytes, and read a buffer of
\* exactly 16 MiB; encode, encodeSign1 and encodeKey fail with the size error
\* when the output would be longer than 16 MiB and return the whole output,
\* never a shorter one, when it is 16 MiB or less.
C11_BufferCeiling ==
    lpc = "done" =>
        /\ (call[1] \in Decoders /\ Given(call) > MAX_BUFFER_SIZE) =>
              outcome = Err("Buffer exceeds maximum size")
        /\ (call[1] \in Decoders /\ Given(call) = MAX_BUFFER_SIZE) =>
              IF call[2] = "unreadable" THEN outcome = Err("Unsupported special value")
              ELSE IsOk(outcome)
        /\ (call[1] \in Encoders /\ call[2] = "bytes" /\ Written(call) > MAX_BUFFER_SIZE) =>
              outcome = Err("Encoded data exceeds maximum size")
        /\ (call[1] \in Encoders /\ call[2] = "bytes" /\ Written(call) <= MAX_BUFFER_SIZE) =>
              outcome = Ok(<<"bytes", Written(call), 0>>)

\* 16 MiB + 1 bytes that start with no item were refused for their size
C11_Witness ==
    /\ lpc = "done"
    /\ call = <<"decode", "unreadable", MAX_BUFFER_SIZE + 1>>
    /\ outcome = Err("Buffer exceeds maximum size")

LimitMessage(shape) ==
    IF shape \in {"array", "array in array", "array head"}
    THEN "Array length exceeds reasonable limit"
    ELSE "Map size exceeds reasonable limit"

\* C12: encode refuses an array of more than 10000 elements and a map of
\* more than 10000 pairs, decode an array or map head that declares more
\* than 10000, at the top and inside an array, with or without the elements
\* in the buffer; 10000 are accepted; no array or map that decode returns
\* has more than 10000 entries.
C12_ContainerCeiling ==
    (lpc = "done" /\ call[2] \in Containers \cup {"array head", "map head"}) =>
        /\ call[3] > MAX_ITEMS => outcome = Err(LimitMessage(call[2]))
        /\ (call[3] <= MAX_ITEMS /\ call[2] \in Containers) => IsOk(outcome)
        /\ (call[3] <= MAX_ITEMS /\ call[1] = "decode"
              /\ call[2] \in {"array", "array in array"}) =>
              outcome = Ok(<<"array", call[3], IF call[2] = "array" THEN 0 ELSE 1>>)
        /\ (call[1] = "decode" /\ IsOk(outcome)) => outcome[2][2] <= MAX_ITEMS

\* the head of an array of 10001 elements, without any element, was refused
\* for the count it declares
C12_Witness ==
    /\ lpc = "done"
    /\ call = <<"decode", "array head", MAX_ITEMS + 1>>
    /\ outcome = Err("Array length exceeds reasonable limit")

(***************************************************************************)
(* Shape of the envelopes read from the wire                               *)
(***************************************************************************)
\* the value inside the tag of a buffer that CBOR.decode reads as a tagged
\* item
InnerOf(buffer) == Get(decode(buffer)[2], KeyValue)[2]

ArityOf(name) == IF name = "decodeEncrypt0" THEN 3 ELSE 4
HasList(name) == name \in {"decodeSign", "decodeMac", "decodeEncrypt"}

\* an array of the arity of the decoder, every element of its list an array
\* of three
ArityOk(name, inner) ==
    /\ inner[1] = "array"
    /\ Len(inner[2]) = ArityOf(name)
    /\ HasList(name) =>
          /\ inner[2][4][1] = "array"
          /\ \A i \in 1..Len(inner[2][4][2]) :
                /\ inner[2][4][2][i][1] = "array"
                /\ Len(inner[2][4][2][i][2]) = 3

\* C21: decodeX fails when the value inside the tag of X is not an array of
\* the arity of X (3 for Encrypt0, 4 for the others) or an element of its
\* list is not an array of 3.
C21_Arity ==
    (cpc = "decoded" /\ TopTag(data) = TagOfDecoder(decoder) /\ IsOk(decode(data))
       /\ ~ArityOk(decoder, InnerOf(data))) => IsErr(coseDec)

IsByteString(v) == v[1] = "bytes"
TerminalOf(name) ==
    IF name \in {"decodeSign1", "decodeSign"} THEN "signature"
    ELSE IF name \in {"decodeMac0", "decodeMac"} THEN "tag"
    ELSE IF name = "decodeEncrypt0" THEN "ciphertext"
    ELSE "encrypted_key"
ListOf(name) == IF name = "decodeSign" THEN "signatures" ELSE "recipients"

\* C22: what a decoder returns has a payload that is a byte string or null
\* and terminal fields (signature, tag, ciphertext, encrypted_key) that are
\* byte strings, those of the elements of its list included.
C22_FieldTypes ==
    (cpc = "decoded" /\ IsOk(coseDec)) =>
        /\ "payload" \in DOMAIN coseDec[2] =>
              coseDec[2].payload[1] \in {"bytes", "null"}
        /\ "ciphertext" \in DOMAIN coseDec[2] => IsByteString(coseDec[2].ciphertext)
        /\ ~HasList(decoder) => IsByteString(coseDec[2][TerminalOf(decoder)])
        /\ HasList(decoder) =>
              \A i \in 1..Len(coseDec[2][ListOf(decoder)]) :
                  IsByteString(coseDec[2][ListOf(decoder)][i][TerminalOf(decoder)])

\* the entries a key of the type kty may have
Permitted(kty) ==
    {1, 3} \cup (IF kty = NatNum(2) THEN {-1, -2, -3}
                 ELSE IF kty = NatNum(3) THEN {-1, -2}
                 ELSE {})

\* no entry but the permitted ones, and the curve 1 in an EC key
Restricted(k) ==
    /\ \A i \in 1..Len(k[2]) : k[2][i][1] \in {Key(n) : n \in Permitted(EntryOf(k, 1))}
    /\ EntryOf(k, 1) = NatNum(2) => EntryOf(k, -1) = NatNum(1)

\* C26: encodeKey and decodeKey fail for a key that has an entry other than
\* 1, 3 and the parameters of its key type (-1, -2, -3 for kty 2; -1, -2 for
\* kty 3), and for an EC key whose entry -1 is not the curve 1.
C26_KeyContents ==
    /\ (KeyEncoded /\ ~Restricted(coseKey)) => IsErr(keyEnc)
    /\ (KeyDecoded /\ HoldsMap(keyData) /\ ~Restricted(HeldKey(keyData))) => IsErr(keyDec)

(***************************************************************************)
(* Buffers that end early                                                  *)
(***************************************************************************)
\* what ensureBytes and decodeFirstItem throw when the buffer is too short
TruncatedBuffer ==
    {Err("Buffer too short for CBOR decoding"), Err("Buffer too short for CBOR data")}

\* the buffer is the beginning of one of the items, and not all of it
Truncated(w) ==
    \E s \in SampleItems : Len(w) < Len(s) /\ SubSeq(s, 1, Len(w)) = w

\* C23: no read is made without a check for as many bytes as it reads, so
\* decode never fails with the RangeError of a DataView; decode of a buffer
\* that ends before its item is complete, and of every proper prefix of
\* CBOR.encode(V), fails with the error of a buffer that is too short.
C23_Truncation ==
    /\ wpc \in {"read", "decoded", "prefix", "followed"} => wireDec # Err("RangeError")
    /\ (wpc = "read" /\ Truncated(wire)) => wireDec \in TruncatedBuffer
    /\ wpc = "prefix" => wireDec \in TruncatedBuffer

(***************************************************************************)
(* The additional info of an initial byte                                  *)
(***************************************************************************)
\* the initial byte of the buffer, or of the only element of its array
HeadByte(w) == IF w[1] = 129 /\ Len(w) >= 2 THEN w[2] ELSE w[1]

\* additional info 28 to 31 with a major type below 7; with major type 7
\* anything but 20 to 23 and 25 to 27
Rejected(b) ==
    IF b \div 32 < 7 THEN b % 32 >= 28
    ELSE b % 32 \notin {20, 21, 22, 23, 25, 26, 27}

InvalidInfo ==
    {Err("Invalid additional info for unsigned integer"),
     Err("Invalid additional info for negative integer"),
     Err("Unsupported CBOR length encoding"),
     Err("Unsupported special value")}

WireRead == wpc \in {"read", "decoded", "prefix", "followed"} /\ Len(wire) >= 1

\* C24: decode fails, for the additional info, on an initial byte of major
\* type 0 to 6 with additional info 28 to 31 and on one of major type 7 with
\* additional info other than 20 to 23 and 25 to 27, at the top and inside
\* an array; every other initial byte is read when the bytes it declares
\* follow.
C24_AdditionalInfo ==
    /\ (WireRead /\ Rejected(HeadByte(wire))) => wireDec \in InvalidInfo
    /\ (WireRead /\ wire \in Padded /\ ~Rejected(HeadByte(wire))) => IsOk(wireDec)

\* an array of indefinite length, 9F, was refused for its additional info
C24_Witness ==
    /\ wpc = "read"
    /\ wire = <<159>> \o Zeros(46)
    /\ wireDec = Err("Unsupported CBOR length encoding")

(***************************************************************************)
(* Tagged values                                                           *)
(***************************************************************************)
\* the object { tag: t, value: v } and its two properties
IsTagAndValue(v) ==
    v[1] = "object" /\ Len(v[2]) = 2 /\ v[2][1][1] = KeyTag /\ v[2][2][1] = KeyValue
TagOf(v) == Get(v, KeyTag)[2]
InnerValueOf(v) == Get(v, KeyValue)[2]

\* the head of major type 6 with the tag number t, then the inner value
WireOfTagged(t, inner) == Joined(Ok(ShortestForm(192, MagOf(t))), encode(inner))

\* C25: for every tag number t from 0 to 2^53-1 and every inner value v that
\* encodes, encode of { tag: t, value: v } is the head of major type 6 with
\* t in shortest form followed by the encoding of v, and decode gives
\* { tag: t, value: v } back; encode fails only when t is negative or not
\* an integer.
C25_Tags ==
    (EncodeDone /\ IsTagAndValue(value) /\ TagOf(value)[1] \in {"num", "float"}
       /\ IsOk(encode(InnerValueOf(value)))) =>
        /\ (SafeInteger(TagOf(value)) /\ ~IsNeg(TagOf(value))) =>
              /\ IsOk(encoded)
              /\ encoded = WireOfTagged(TagOf(value), InnerValueOf(value))
              /\ DecodeDone => (IsOk(decoded) /\ StructEq(decoded[2], value))
        /\ IsErr(encoded) => (TagOf(value)[1] = "float" \/ IsNeg(TagOf(value)))

\* C30: an object that has the keys "tag", with a number, and "value" is
\* written as major type 6 with that number as tag number followed by the
\* encoding of what "value" holds, whatever else the object holds, and
\* encode fails when the number is negative or not an integer.
C30_TagConfusion ==
    (EncodeDone /\ value[1] = "object" /\ Has(value[2], KeyTag) /\ Has(value[2], KeyValue)
       /\ TagOf(value)[1] \in {"num", "float"}) =>
        IF TagOf(value)[1] = "float" \/ IsNeg(TagOf(value))
        THEN encoded = Err("Tag must be a non-negative integer")
        ELSE encoded = WireOfTagged(TagOf(value), InnerValueOf(value))

(***************************************************************************)
(* Bytes after the item                                                    *)
(***************************************************************************)
\* buffers in which bytes follow an item, up to one byte above 16 MiB
FollowedCalls ==
    ({"decode"} \X {"followed"} \X {1, 2, MAX_BUFFER_SIZE, MAX_BUFFER_SIZE + 1})
      \cup ({"decodeSign1"} \X {"sign1"}
              \X {Len(Sign1ExampleBytes), Len(Sign1ExampleBytes) + 1,
                  MAX_BUFFER_SIZE, MAX_BUFFER_SIZE + 1})

FollowedInit ==
    \/ CborInit /\ CoseIdle /\ WireIdle /\ KeyIdle /\ LimitIdle
    \/ CborIdle /\ (CoseInit \/ CraftedInit) /\ WireIdle /\ KeyIdle /\ LimitIdle
    \/ /\ CborIdle /\ CoseIdle /\ WireIdle /\ KeyIdle
       /\ call \in FollowedCalls /\ outcome = None /\ lpc = "start"

FollowedNext ==
    \/ Encode \/ DecodeFollowed
    \/ EncodeSign1 \/ EncodeSign \/ EncodeMac0 \/ EncodeMac \/ EncodeEncrypt0 \/ EncodeEncrypt
    \/ Follow
    \/ DecodeSign1 \/ DecodeSign \/ DecodeMac0 \/ DecodeMac \/ DecodeEncrypt0 \/ DecodeEncrypt
    \/ CallDecode \/ CallDecodeSign1

SpecFollowed == FollowedInit /\ [][FollowedNext]_vars

\* the decoder of the name
decodeBy(name, buffer) ==
    IF name = "decodeSign1" THEN decodeSign1(buffer)
    ELSE IF name = "decodeSign" THEN decodeSign(buffer)
    ELSE IF name = "decodeMac0" THEN decodeMac0(buffer)
    ELSE IF name = "decodeMac" THEN decodeMac(buffer)
    ELSE IF name = "decodeEncrypt0" THEN decodeEncrypt0(buffer)
    ELSE decodeEncrypt(buffer)

\* what the decoder gives for the item alone when it got call[3] bytes:
\* the integer 0, the Sign1 envelope of the example
Alone(c) ==
    IF c[1] = "decode" THEN SeenValue(decode(<<0>>))
    ELSE SeenSign1(decodeSign1(Sign1ExampleBytes))

\* bytes followed the envelope, or the item in its protected byte string
EnvelopeFollowed == cpc = "decoded" /\ IsOk(coseEnc) /\ data # coseEnc[2]
ProtectedFollowed ==
    cpc = "decoded" /\ decoder = "decodeSign1"
      /\ data \in {Sign1With(<<161, 1, 38>> \o s) : s \in TrailingBytes}

\* C28 as stated: whatever bytes follow it, decode of the encoding of V
\* followed by them gives what decode of the encoding gives, and so do the
\* envelope decoders for bytes after the envelope and after the item of the
\* protected byte string.
C28_TrailingBytes ==
    /\ pc = "followed" => wireDec = decode(encoded[2])
    /\ EnvelopeFollowed => coseDec = decodeBy(decoder, coseEnc[2])
    /\ ProtectedFollowed => coseDec = decodeSign1(Sign1With(<<161, 1, 38>>))
    /\ lpc = "done" => outcome = Alone(call)

\* C28, for buffers of at most 16 MiB: decode of the encoding of V followed
\* by other bytes gives what decode of the encoding gives, and so do the
\* envelope decoders for bytes after the envelope and after the item of the
\* protected byte string.
C28_TrailingBytesWithinLimit ==
    /\ (pc = "followed" /\ Len(wire) <= MAX_BUFFER_SIZE) => wireDec = decode(encoded[2])
    /\ (EnvelopeFollowed /\ Len(data) <= MAX_BUFFER_SIZE) =>
          coseDec = decodeBy(decoder, coseEnc[2])
    /\ (ProtectedFollowed /\ Len(data) <= MAX_BUFFER_SIZE) =>
          coseDec = decodeSign1(Sign1With(<<161, 1, 38>>))
    /\ (lpc = "done" /\ call[3] <= MAX_BUFFER_SIZE) => outcome = Alone(call)

\* the text "a" came back from its encoding followed by the byte FF
C28_Witness ==
    /\ pc = "followed"
    /\ value = Text(<<97>>)
    /\ wire = <<97, 97, 255>>
    /\ wireDec = Ok(value)

(***************************************************************************)
(* Progress of the decoder                                                 *)
(***************************************************************************)
RECURSIVE Chain(_, _, _)
RECURSIVE ChainFrom(_, _, _)

\* n items of the buffer one after the other, the first at offset, each of
\* the others where the one before it ended: <<value, end>> of each, up to
\* the first that cannot be read
Chain(buffer, offset, n) ==
    IF n = 0 THEN <<>> ELSE ChainFrom(decodeFirstItem(buffer, offset), buffer, n)
ChainFrom(it, buffer, n) ==
    IF IsErr(it) THEN <<>> ELSE <<it[2]>> \o Chain(buffer, it[2][2], n - 1)

\* major type of the item at wireStart, the count its head declares and the
\* offset after the head
MajorAt(w, at) == w[at + 1] \div 32
HeadAt(w, at) == readLength(w, at + 1, w[at + 1] % 32)[2]
ChildrenOf(w, at) ==
    Chain(w, HeadAt(w, at)[2], (IF MajorAt(w, at) = 5 THEN 2 ELSE 1) * NatOfMag(HeadAt(w, at)[1]))

\* the end of the last of the children, or of the head when there is none
EndOf(children, head) == IF children = <<>> THEN head ELSE children[Len(children)][2]

\* the elements of the array are the children in their order
ArrayOf(children, v) ==
    /\ Len(v[2]) = Len(children)
    /\ \A i \in 1..Len(children) : v[2][i] = children[i][1]

\* every key of the map holds the value that follows its last occurrence
MapOfChildren(children, v) ==
    \A i \in 1..(Len(children) \div 2) :
        \E j \in i..(Len(children) \div 2) :
            /\ PropertyKey(children[2 * j - 1][1]) = PropertyKey(children[2 * i - 1][1])
            /\ Get(v, PropertyKey(children[2 * i - 1][1])) = Ok(children[2 * j][1])

Contiguous(w, at, v, next) ==
    /\ Len(ChildrenOf(w, at)) =
          (IF MajorAt(w, at) = 5 THEN 2 ELSE 1) * NatOfMag(HeadAt(w, at)[1])
    /\ next = EndOf(ChildrenOf(w, at), HeadAt(w, at)[2])
    /\ IF MajorAt(w, at) = 4 THEN ArrayOf(ChildrenOf(w, at), v)
       ELSE MapOfChildren(ChildrenOf(w, at), v)

\* C29: decodeFirstItem(buffer, start) ends with an item or a failure for
\* every start from 0 to the length of the buffer; an item it returns ends
\* after start and not after the end of the buffer; the children of an
\* array or map it returns are the items that lie one after the other from
\* the end of its head, and it ends where the last of them ends.
C29_Progress ==
    wpc = "item" =>
        /\ IsOk(wireItem) \/ IsErr(wireItem)
        /\ wireStart = Len(wire) => IsErr(wireItem)
        /\ IsOk(wireItem) =>
              /\ wireStart < wireItem[2][2]
              /\ wireItem[2][2] <= Len(wire)
              /\ MajorAt(wire, wireStart) \in {4, 5} =>
                    Contiguous(wire, wireStart, wireItem[2][1], wireItem[2][2])

\* [1, 256, "a"] was read from 83 01 19 01 00 61 61 and ended at offset 7
C29_Witness ==
    /\ wpc = "item"
    /\ wire = <<131, 1, 25, 1, 0, 97, 97>>
    /\ wireStart = 0
    /\ wireItem = Ok(<<Array(<<NatNum(1), Num(FALSE, <<1, 0>>), Text(<<97>>)>>), 7>>)

====
